---------------------------- MODULE Spec2Model ----------------------------
(***************************************************************************)
(* Signal backtesting and validation engine: streak filter, walk-forward   *)
(* optimizer, path-dependent exit simulator, IS/OOS split, portfolio       *)
(* simulation and the per-channel result loops.                            *)
(*                                                                         *)
(* Each component has its own specification over the shared variables; a   *)
(* specification leaves the variables of the other components at their     *)
(* Idle value.                                                             *)
(***************************************************************************)
EXTENDS Integers, Sequences, FiniteSets, TLC

VARIABLES
    \* ---- streak filter (sim_engine.py, deep_analysis.py) ----
    engine,        \* "sim_engine" (preseed + simulate) or "deep_analysis" (_streak_grid)
    phase,         \* "is" | "oos" : which period is being replayed
    n_wins,        \* cfg["n_wins"] / n_enter
    m_losses,      \* cfg["m_losses"] / m_stop
    win_streak,
    loss_streak,
    active,
    n_seen,        \* number of outcomes processed so far (both periods)
    n_trades,      \* len(selected) / len(trade_log) of the current period
    pre,           \* (win_streak, loss_streak, active) before the last outcome, or NoState
    outcome,       \* the last outcome processed (1 win, 0 loss), -1 before the first
    activated,     \* the last outcome took the "not active and win_streak >= n" branch
    traded,        \* the last outcome was appended to selected / trade_log
    is_terminal,   \* state at the end of the in-sample replay, or NoState
    oos_start,     \* state the out-of-sample replay started from, or NoState
    history,       \* the channel's latest outcomes, oldest first, both periods: the
                   \* last one processed and up to n_wins before it
    \* ---- path-dependent exit (optimal_params.py) ----
    x_pc,          \* "in" | "built" | "excluded" | "resolved"
    x_fn,          \* "_search_tpsl" (in-sample grid) or "_evaluate_params" (out-of-sample)
    prices,        \* the price series, sorted by timestamp
    entry_pos,     \* np.searchsorted(price_ts, sig_ts, side="left"), 0-based, 0..len(prices)
    dir_sign,      \* +1 bullish, -1 bearish
    tp,            \* take-profit, in units of 0.2 %
    sl,            \* stop-loss, in units of 0.2 %
    directed,      \* the signal's row of the directed pct matrix, or << >>
    x_ret,         \* the realized net return of the signal, or NoRet
    \* ---- IS/OOS split (analyze.py, sim_engine.py, zone_test.py) ----
    df_signals,    \* rows [id, ts] of the signals table, ORDER BY timestamp
    df_context,    \* rows [id, ts] of signal_price_context (signal_id, signal_timestamp), any order
    entry_ts,      \* rows [id, ts] of the zone entries found by _find_entries
    parts,         \* per split operation: [done, is, oos], the two sides it produced
    \* ---- walk-forward (optimal_params.py, deep_analysis.py, orderbook_h1_imbalance.py, zone_test.py) ----
    wf_kind,       \* which walk-forward analysis runs
    wf_pc,         \* "in" | "searched" | "done" | "skipped"
    is_stats,      \* per grid point: [trades, sharpe] of its returns on the in-sample side
    oos_stats,     \* per grid point: [trades, sharpe] of its returns on the out-of-sample side
    all_sharpe,    \* per grid point: hz["1h"]["sharpe"] over all entries (zone_test only)
    best_params,   \* the grid point reported as best / selected, 0 if none
    wf_top,        \* the walk-forward verdicts reported (one, or zone_test's top 3)
    wf_reason,     \* the "reason" of a skipped result, "" otherwise
    \* ---- portfolio simulation (risk_metrics.py, sim_engine.py) ----
    pf_mode,       \* "risk_metrics" (_portfolio_simulation) or "sim_engine" (simulate)
    hold,          \* hold_minutes / the horizon of the simulated position, in minutes
    pf_n,          \* rows processed
    pf_ts,         \* timestamp of the last row processed, in minutes
    open_until,    \* risk_metrics: channel -> expiry timestamp, -1 when the key is absent
    ch_state,      \* sim_engine: channel -> (win_streak, loss_streak, active)
    pos_until,     \* channel -> end of the hold window of its last accepted signal, -1 if none
    pf_last,       \* last row: [ch, within, accepted]
    skipped,       \* risk_metrics: "skipped" counter
    n_accepted,    \* len(trades) / len(trade_log)
    size_pct,      \* sim_engine: size_pct, the position size in % of the capital
    capital,       \* sim_engine: capital, an exact fraction [num, den]
    trade_log,     \* sim_engine: trade_log, as [timestamp, channel] per trade
    equity_curve,  \* sim_engine: equity_curve, as the timestamp of each point
    \* ---- per-channel loops and their callers (analyze.py, optimal_params.py,
    \*      monte_carlo.py, deep_analysis.py) ----
    b_module,      \* the module analyze.main is running
    b_fn,          \* the function whose channel loop is running
    b_i,           \* channels of that loop already handled
    b_counts,      \* channel -> number of rows the component counts against its minimum
    b_bad,         \* channel -> its rows make the computation raise
    b_result,      \* function -> channel -> the entry written for it
    b_pc,          \* "run" | "raised" | "stored" | "error" | "lost"
    b_failed,      \* the channel whose computation raised, 0 if none
    \* ---- price context (phases.py, live.py, db.py, orderbook_db.py) ----
    c_mode,        \* "phases" (_fill_one_signal_context), "orderbook" (fill_price_context) or "live"
    price_index,   \* config.price_index: minute key -> price
    sig_price,     \* btc_price_binance or btc_price_from_channel of the signal, 0 for None
    ctx,           \* the signal_price_context row of the signal: [exists, price_at, mask, after]
    now,           \* current minute, counted from the minute of the signal
    c_done,        \* the batch fill has handled the signal
    \* ---- price lookup (db.py, orderbook_db.py) ----
    btc_price,     \* timestamps of the rows of table btc_price, in half minutes
    lk_fn,         \* "get_price_fast" (db.py) or "get_price" (orderbook_db.py)
    lk_index,      \* the index built from btc_price: minute key -> price
    lk_target,     \* the target of the lookup, in half minutes
    lk_tol,        \* tolerance_minutes / tolerance
    lk_result,     \* what the lookup returned
    lk_pc,         \* "rows" | "indexed" | "done"
    \* ---- entry price of a signal (optimal_params.py, orderbook_h1_imbalance.py) ----
    e_fn,          \* "_build_pct_matrix" (optimal_params), "_compute_returns" (orderbook_h1_imbalance)
                   \* or "_timestamp_shuffle" (monte_carlo)
    price_ts,      \* timestamps of the sorted price series, in minutes
    price_vals,    \* prices of the sorted price series
    e_sig_ts,      \* timestamp of the signal / start of the bin, in minutes
    e_hz,          \* _compute_returns: offset of the horizon, in minutes
    e_out,         \* [entry_idx, entry_price, target_idx, included, zero_filled]
    e_pc,          \* "in" | "done"
    \* ---- statistics of a return array (channel_stats.py, sim_metrics.py, risk_metrics.py, optimal_params.py, deep_analysis.py) ----
    m_fn,          \* the statistic applied, as module.function
    m_rets,        \* the return array
    m_out,         \* its result: [cls, sign, num, den]
    m_pc,          \* "in" | "done"
    \* ---- Monte Carlo shuffles (monte_carlo.py) ----
    mc_fn,         \* "_direction_shuffle" or "_timestamp_shuffle"
    mc_sizes,      \* len(grp) of the groups of df.groupby("channel_name"), in group order
    mc_nprices,    \* len(price_vals)
    mc_g,          \* the group the loop is at
    mc_i,          \* iterations done for that group
    mc_pos,        \* numbers the generator has handed out since it was seeded
    mc_draws,      \* group -> the draws of its iterations: [seed, pos, size]
    mc_pc,         \* "groups" | "iter" | "done"
    \* ---- price-level clustering (orderbook_h2_levels.py, zone_test.py) ----
    z_fn,          \* "_build_levels" (orderbook_h2_levels) or "_cluster_zones" (zone_test)
    z_obs,         \* the observations as handed in: [price, side], price in units of 0.1
    z_width,       \* zone_width_pct / CLUSTER_PCT, in units of 0.1 %
    z_sp,          \* the observations sorted by price
    z_i,           \* the index i of the sweep, 0-based
    z_levels,      \* the clusters appended so far: [sum, strength, type]
    z_pc,          \* "in" | "sweep" | "done"
    \* ---- zone touches (orderbook_h2_levels.py, zone_test.py) ----
    t_fn,          \* "_detect_touches", "_detect_breakout_returns" (orderbook_h2_levels) or "_find_entries" (zone_test)
    t_level,       \* the zone: [type, strength, t_first, t_last]
    t_ts,          \* price_ts, in minutes
    t_vals,        \* price_vals, the zone price being 10000
    t_width,       \* zone_width_pct / width_pct, in units of 0.1 %
    t_lifetime,    \* lifetime_sec, in minutes
    t_min_str,     \* min_strength
    t_entries,     \* the entries appended: [ts, price, touch, bi]
    t_pc,          \* "in" | "done"
    \* ---- the delayed-fill loop over the table (services/live.py) ----
    f_rows,        \* signal_price_context, in signal_timestamp order: [signal_timestamp, price_at_signal, filled_mask, found]
    f_now,         \* datetime.now(timezone.utc), in seconds
    f_arrived,     \* live signals stored so far
    \* ---- price history download (services/binance.py) ----
    h_current,     \* current_ms, in minutes (60000 ms) from start
    h_end,         \* end_ms, in minutes from start
    h_errors,      \* consecutive_errors
    h_klines,      \* len(all_klines)
    h_since,       \* loop iterations since current_ms last advanced
    h_skipped,     \* chunks skipped so far
    h_pc           \* "loop" | "returned"

streakVars == <<engine, phase, n_wins, m_losses, win_streak, loss_streak, active,
                n_seen, n_trades, pre, outcome, activated, traded,
                is_terminal, oos_start, history>>

exitVars == <<x_pc, x_fn, prices, entry_pos, dir_sign, tp, sl, directed, x_ret>>

splitVars == <<df_signals, df_context, entry_ts, parts>>

wfVars == <<wf_kind, wf_pc, is_stats, oos_stats, all_sharpe, best_params, wf_top, wf_reason>>

pfVars == <<pf_mode, hold, pf_n, pf_ts, open_until, ch_state, pos_until, pf_last,
            skipped, n_accepted, size_pct, capital, trade_log, equity_curve>>

batchVars == <<b_module, b_fn, b_i, b_counts, b_bad, b_result, b_pc, b_failed>>

ctxVars == <<c_mode, price_index, sig_price, ctx, now, c_done>>

lkVars == <<btc_price, lk_fn, lk_index, lk_target, lk_tol, lk_result, lk_pc>>

entryVars == <<e_fn, price_ts, price_vals, e_sig_ts, e_hz, e_out, e_pc>>

metricVars == <<m_fn, m_rets, m_out, m_pc>>

mcVars == <<mc_fn, mc_sizes, mc_nprices, mc_g, mc_i, mc_pos, mc_draws, mc_pc>>

zoneVars == <<z_fn, z_obs, z_width, z_sp, z_i, z_levels, z_pc>>

touchVars == <<t_fn, t_level, t_ts, t_vals, t_width, t_lifetime, t_min_str, t_entries, t_pc>>

fillVars == <<f_rows, f_now, f_arrived>>

histVars == <<h_current, h_end, h_errors, h_klines, h_since, h_skipped, h_pc>>

vars == <<streakVars, exitVars, splitVars, wfVars, pfVars, batchVars, ctxVars, lkVars, entryVars, metricVars, mcVars, zoneVars, touchVars, fillVars, histVars>>

notStreak == <<exitVars, splitVars, wfVars, pfVars, batchVars, ctxVars, lkVars, entryVars, metricVars, mcVars, zoneVars, touchVars, fillVars, histVars>>
notExit == <<streakVars, splitVars, wfVars, pfVars, batchVars, ctxVars, lkVars, entryVars, metricVars, mcVars, zoneVars, touchVars, fillVars, histVars>>
notSplit == <<streakVars, exitVars, wfVars, pfVars, batchVars, ctxVars, lkVars, entryVars, metricVars, mcVars, zoneVars, touchVars, fillVars, histVars>>
notWf == <<streakVars, exitVars, splitVars, pfVars, batchVars, ctxVars, lkVars, entryVars, metricVars, mcVars, zoneVars, touchVars, fillVars, histVars>>
notPf == <<streakVars, exitVars, splitVars, wfVars, batchVars, ctxVars, lkVars, entryVars, metricVars, mcVars, zoneVars, touchVars, fillVars, histVars>>
notBatch == <<streakVars, exitVars, splitVars, wfVars, pfVars, ctxVars, lkVars, entryVars, metricVars, mcVars, zoneVars, touchVars, fillVars, histVars>>
notCtx == <<streakVars, exitVars, splitVars, wfVars, pfVars, batchVars, lkVars, entryVars, metricVars, mcVars, zoneVars, touchVars, fillVars, histVars>>
notLk == <<streakVars, exitVars, splitVars, wfVars, pfVars, batchVars, ctxVars, entryVars, metricVars, mcVars, zoneVars, touchVars, fillVars, histVars>>
notEntry == <<streakVars, exitVars, splitVars, wfVars, pfVars, batchVars, ctxVars, lkVars, metricVars, mcVars, zoneVars, touchVars, fillVars, histVars>>
notMetric == <<streakVars, exitVars, splitVars, wfVars, pfVars, batchVars, ctxVars, lkVars, entryVars, mcVars, zoneVars, touchVars, fillVars, histVars>>
notMc == <<streakVars, exitVars, splitVars, wfVars, pfVars, batchVars, ctxVars, lkVars, entryVars, metricVars, zoneVars, touchVars, fillVars, histVars>>
notZone == <<streakVars, exitVars, splitVars, wfVars, pfVars, batchVars, ctxVars, lkVars, entryVars, metricVars, mcVars, touchVars, fillVars, histVars>>
notTouch == <<streakVars, exitVars, splitVars, wfVars, pfVars, batchVars, ctxVars, lkVars, entryVars, metricVars, mcVars, zoneVars, fillVars, histVars>>
notFill == <<streakVars, exitVars, splitVars, wfVars, pfVars, batchVars, ctxVars, lkVars, entryVars, metricVars, mcVars, zoneVars, touchVars, histVars>>
notHist == <<streakVars, exitVars, splitVars, wfVars, pfVars, batchVars, ctxVars, lkVars, entryVars, metricVars, mcVars, zoneVars, touchVars, fillVars>>

NoState == [win_streak |-> -1, loss_streak |-> -1, active |-> FALSE]

-----------------------------------------------------------------------------
(* Bounds *)

MaxOutcomes == 13     \* outcomes replayed per run (in-sample plus out-of-sample)
MaxSeries == 5        \* samples in the price series
MaxRows == 3          \* rows of the signals table
MaxTs == 3            \* timestamps 1..MaxTs
MaxEntries == 2       \* zone entries
MaxHold == 4          \* columns of the pct matrix (MAX_HOLD = 1440 in optimal_params.py)
MaxGrid == 2          \* grid points of a walk-forward search
MaxPfRows == 3        \* rows replayed by a portfolio simulation
MaxChannels == 2      \* channels a batch analysis loops over

-----------------------------------------------------------------------------
(* Program constants *)

\* sim_engine.py STRATEGIES: (n_wins, m_losses) per channel
STRATEGIES == { <<4, 1>>, <<2, 1>>, <<5, 1>> }
\* deep_analysis.py STREAK_N = range(1, 6), STREAK_M = range(1, 4)
STREAK_N == 1..5
STREAK_M == 1..3
\* deep_analysis.py _streak_grid: "if len(sel) < 10: continue"
MIN_SEL_IS == 10

-----------------------------------------------------------------------------
(* Streak filter: one outcome *)

StateOf(ws, ls, a) == [win_streak |-> ws, loss_streak |-> ls, active |-> a]

\* A plausible slip: strict comparison in the activation test.
Activates_Strict(st, n) == ~st.active /\ st.win_streak > n

\* "if not active and win_streak >= n: active, loss_streak = True, 0"
Activates(st, n) == ~st.active /\ st.win_streak >= n

\* A plausible slip: strict comparison in the stop test.
StopsOut_Strict(ls, m) == ls > m

\* "if loss_streak >= m" after "loss_streak += 1"
StopsOut(ls, m) == ls >= m

\* One iteration of the loop body (the same text in _preseed_streak_state,
\* simulate and _streak_filter).  Returns the next state together with what
\* the iteration did: took the activation branch, went through "if active".
StreakStep(st, o, n, m) ==
    LET act  == Activates(st, n)
        a1   == st.active \/ act
        ls1  == IF act THEN 0 ELSE st.loss_streak
        \* if active: loss -> loss_streak += 1, maybe stop; win -> loss_streak = 0
        stop == a1 /\ o = 0 /\ StopsOut(ls1 + 1, m)
        a2   == a1 /\ ~stop
        ls2  == IF ~a1 THEN ls1
                ELSE IF o = 0 THEN (IF stop THEN 0 ELSE ls1 + 1)
                ELSE 0
        ws2  == IF stop THEN 0 ELSE st.win_streak
        \* "win_streak = win_streak + 1 if outcome == 1 else 0"
        ws3  == IF o = 1 THEN ws2 + 1 ELSE 0
    IN  [win_streak |-> ws3, loss_streak |-> ls2, active |-> a2,
         activated |-> act, in_active |-> a1]

Cur == StateOf(win_streak, loss_streak, active)

\* record: the loop appends to selected / trade_log inside "if active"
ApplyStep(o, record) ==
    LET nxt == StreakStep(Cur, o, n_wins, m_losses) IN
    /\ n_seen < MaxOutcomes
    /\ win_streak' = nxt.win_streak
    /\ loss_streak' = nxt.loss_streak
    /\ active' = nxt.active
    /\ pre' = Cur
    /\ outcome' = o
    /\ activated' = nxt.activated
    /\ traded' = (record /\ nxt.in_active)
    /\ n_trades' = IF record /\ nxt.in_active THEN n_trades + 1 ELSE n_trades
    /\ n_seen' = n_seen + 1
    /\ history' = (IF Len(history) > n_wins THEN Tail(history) ELSE history) \o <<o>>
    /\ UNCHANGED <<engine, phase, n_wins, m_losses, is_terminal, oos_start>>
    /\ UNCHANGED notStreak

\* sim_engine._preseed_streak_state: loop over the in-sample outcomes (no trade log)
PreseedStep ==
    /\ engine = "sim_engine" /\ phase = "is"
    /\ \E o \in {0, 1} : ApplyStep(o, FALSE)

\* sim_engine.simulate: ch_state[ch] is a copy of states[ch]
SimulateStart ==
    /\ engine = "sim_engine" /\ phase = "is"
    /\ phase' = "oos"
    /\ is_terminal' = Cur
    /\ oos_start' = Cur
    /\ n_trades' = 0
    /\ pre' = NoState /\ outcome' = -1 /\ activated' = FALSE /\ traded' = FALSE
    /\ UNCHANGED <<engine, n_wins, m_losses, win_streak, loss_streak, active, n_seen, history>>
    /\ UNCHANGED notStreak

\* sim_engine.simulate: one row of the out-of-sample frame
SimulateStep ==
    /\ engine = "sim_engine" /\ phase = "oos"
    /\ \E o \in {0, 1} : ApplyStep(o, TRUE)

\* deep_analysis._streak_grid: _streak_filter(oi, ri, n, m) on the in-sample arrays
StreakFilterStepIS ==
    /\ engine = "deep_analysis" /\ phase = "is"
    /\ \E o \in {0, 1} : ApplyStep(o, TRUE)

\* deep_analysis._streak_grid: the best (n, m) has len(sel) >= 10; then
\* _streak_filter(oo, ro, best n, best m) starts with its own locals
\* "selected, win_streak, loss_streak, active = [], 0, 0, False"
StreakGridOOSStart ==
    /\ engine = "deep_analysis" /\ phase = "is"
    /\ n_trades >= MIN_SEL_IS
    /\ phase' = "oos"
    /\ is_terminal' = Cur
    /\ win_streak' = 0 /\ loss_streak' = 0 /\ active' = FALSE
    /\ oos_start' = StateOf(0, 0, FALSE)
    /\ n_trades' = 0
    /\ pre' = NoState /\ outcome' = -1 /\ activated' = FALSE /\ traded' = FALSE
    /\ UNCHANGED <<engine, n_wins, m_losses, n_seen, history>>
    /\ UNCHANGED notStreak

StreakFilterStepOOS ==
    /\ engine = "deep_analysis" /\ phase = "oos"
    /\ \E o \in {0, 1} : ApplyStep(o, TRUE)

NoPart == [done |-> FALSE, is |-> << >>, oos |-> << >>]
SplitOps == {"signals", "contexts", "sim_engine", "entries", "merged"}

SplitIdle ==
    /\ df_signals = << >> /\ df_context = << >> /\ entry_ts = << >>
    /\ parts = [o \in SplitOps |-> NoPart]

ExitIdle ==
    /\ x_pc = "idle" /\ x_fn = "none" /\ prices = << >> /\ entry_pos = 0 /\ dir_sign = 0
    /\ tp = 0 /\ sl = 0 /\ directed = << >> /\ x_ret = [num |-> 0, den |-> -1]

WfIdle ==
    /\ wf_kind = "none" /\ wf_pc = "idle"
    /\ is_stats = << >> /\ oos_stats = << >> /\ all_sharpe = << >>
    /\ best_params = 0 /\ wf_top = << >> /\ wf_reason = ""

PfIdle ==
    /\ pf_mode = "none" /\ hold = 0 /\ pf_n = 0 /\ pf_ts = 0
    /\ open_until = << >> /\ ch_state = << >> /\ pos_until = << >>
    /\ pf_last = [ch |-> "none", within |-> FALSE, accepted |-> FALSE]
    /\ skipped = 0 /\ n_accepted = 0
    /\ size_pct = 0 /\ capital = [num |-> 0, den |-> 1]
    /\ trade_log = << >> /\ equity_curve = << >>

BatchIdle ==
    /\ b_module = "none" /\ b_fn = "none" /\ b_i = 0
    /\ b_counts = << >> /\ b_bad = << >> /\ b_result = << >>
    /\ b_pc = "idle" /\ b_failed = 0

CtxIdle ==
    /\ c_mode = "none" /\ price_index = << >> /\ sig_price = 0
    /\ ctx = [exists |-> FALSE, price_at |-> 0, mask |-> 0, after |-> << >>]
    /\ now = 0 /\ c_done = FALSE

LkIdle ==
    /\ btc_price = {} /\ lk_fn = "none" /\ lk_index = << >>
    /\ lk_target = 0 /\ lk_tol = 0 /\ lk_result = 0 /\ lk_pc = "idle"

EntryIdle ==
    /\ e_fn = "none" /\ price_ts = << >> /\ price_vals = << >> /\ e_sig_ts = 0 /\ e_hz = 0
    /\ e_out = [entry_idx |-> 0, entry_price |-> 0, target_idx |-> 0, included |-> FALSE,
                zero_filled |-> FALSE]
    /\ e_pc = "idle"

MetricIdle ==
    /\ m_fn = "none" /\ m_rets = << >> /\ m_pc = "idle"
    /\ m_out = [cls |-> "none", sign |-> 0, num |-> 0, den |-> 1]

McIdle ==
    /\ mc_fn = "none" /\ mc_sizes = << >> /\ mc_nprices = 0 /\ mc_g = 0 /\ mc_i = 0
    /\ mc_pos = 0 /\ mc_draws = << >> /\ mc_pc = "idle"

ZoneIdle ==
    /\ z_fn = "none" /\ z_obs = << >> /\ z_width = 0 /\ z_sp = << >> /\ z_i = 0
    /\ z_levels = << >> /\ z_pc = "idle"

TouchIdle ==
    /\ t_fn = "none" /\ t_level = [type |-> "none", strength |-> 0, t_first |-> 0, t_last |-> 0]
    /\ t_ts = << >> /\ t_vals = << >> /\ t_width = 0 /\ t_lifetime = 0 /\ t_min_str = 0
    /\ t_entries = << >> /\ t_pc = "idle"

FillIdle ==
    /\ f_rows = << >> /\ f_now = 0 /\ f_arrived = 0

HistIdle ==
    /\ h_current = 0 /\ h_end = 0 /\ h_errors = 0 /\ h_klines = 0 /\ h_since = 0 /\ h_skipped = 0
    /\ h_pc = "idle"

StreakIdle ==
    /\ engine = "none" /\ phase = "none" /\ n_wins = 0 /\ m_losses = 0
    /\ win_streak = 0 /\ loss_streak = 0 /\ active = FALSE
    /\ n_seen = 0 /\ n_trades = 0
    /\ pre = NoState /\ outcome = -1 /\ activated = FALSE /\ traded = FALSE
    /\ is_terminal = NoState /\ oos_start = NoState /\ history = << >>

StreakInit ==
    /\ ExitIdle /\ SplitIdle /\ WfIdle /\ PfIdle /\ BatchIdle /\ CtxIdle /\ LkIdle /\ EntryIdle /\ MetricIdle /\ McIdle /\ ZoneIdle /\ TouchIdle /\ FillIdle /\ HistIdle
    /\ engine \in {"sim_engine", "deep_analysis"}
    /\ phase = "is"
    /\ \E cfg \in (IF engine = "sim_engine" THEN STRATEGIES ELSE STREAK_N \X STREAK_M) :
          n_wins = cfg[1] /\ m_losses = cfg[2]
    /\ win_streak = 0 /\ loss_streak = 0 /\ active = FALSE
    /\ n_seen = 0 /\ n_trades = 0
    /\ pre = NoState /\ outcome = -1 /\ activated = FALSE /\ traded = FALSE
    /\ is_terminal = NoState /\ oos_start = NoState /\ history = << >>

StreakNext ==
    \/ PreseedStep
    \/ SimulateStart
    \/ SimulateStep
    \/ StreakFilterStepIS
    \/ StreakGridOOSStart
    \/ StreakFilterStepOOS

SpecStreak == StreakInit /\ [][StreakNext]_vars

-----------------------------------------------------------------------------
(* Streak filter: properties *)

\* The last transition replayed an outcome.
Stepped == pre # NoState

\* The loop that replayed the last outcome keeps a trade list.
Recording == engine = "deep_analysis" \/ phase = "oos"

\* C2: whenever the streak filter is evaluated across the IS/OOS boundary, the
\* out-of-sample run starts from the terminal (win_streak, loss_streak,
\* active) of the in-sample run; the state is never reset at the boundary.
C2_OOSStartsFromISTerminal ==
    phase = "oos" => oos_start = is_terminal

\* C5: processing outcomes one at a time, the filter goes IDLE->ACTIVE when,
\* and only when, the running win-streak counter has reached n_wins: an idle
\* filter never counts past n_wins, the outcome that follows the n_wins-th
\* consecutive win takes the activation branch, and no other outcome does.
C5_ActivationIffStreakReached ==
    /\ (~active => win_streak <= n_wins)
    /\ (Stepped =>
          (activated <=> (~pre.active /\ pre.win_streak = n_wins)))
    /\ (Stepped /\ ~pre.active /\ (active \/ traded) => activated)

C5_Witness ==
    /\ Stepped /\ activated /\ active
    /\ ~pre.active /\ pre.win_streak = n_wins /\ n_wins >= 2

\* C6: while ACTIVE every outcome is a realized trade; a loss increments the
\* loss streak, and the filter leaves ACTIVE exactly when the loss streak
\* reaches m_losses, resetting both counters; a win while ACTIVE resets the
\* loss streak to 0 and stays ACTIVE.
C6_ActiveBranch ==
    LET was_active == pre.active \/ activated
        ls0 == IF activated THEN 0 ELSE pre.loss_streak
    IN  /\ (active => loss_streak < m_losses)
        /\ (Stepped /\ was_active =>
              /\ (Recording => traded)
              /\ (outcome = 0 /\ ls0 + 1 >= m_losses =>
                    ~active /\ loss_streak = 0 /\ win_streak = 0)
              /\ (outcome = 0 /\ ls0 + 1 < m_losses =>
                    active /\ loss_streak = ls0 + 1)
              /\ (outcome = 1 => active /\ loss_streak = 0))
        /\ (Stepped /\ ~was_active => ~traded /\ ~active)

\* a loss below the limit, then later the stop
C6_Witness ==
    /\ Stepped /\ pre.active /\ pre.loss_streak = m_losses - 1 /\ m_losses >= 2
    /\ outcome = 0 /\ ~active /\ traded

-----------------------------------------------------------------------------
(* Path-dependent exit: optimal_params.py *)

\* Percentages are exact rationals num/den in units of 0.2 % (the step of
\* TP_RANGE and SL_RANGE, and the round-trip fee); den = 0 is NaN.
\* TP_RANGE = SL_RANGE = np.arange(0.2, 3.1, 0.2) = 1..15 units
TP_RANGE == 1..15
SL_RANGE == 1..15
\* fee_pct = fee_rate * 2 * 100 = 0.2 % = 1 unit
FEE_UNITS == 1

\* inputs of the bounded check
PriceVals == {0, 99, 100, 101}
GridSample == {1, 5, 6, 10}

NaN == [num |-> 0, den |-> 0]
NoRet == [num |-> 0, den |-> -1]
IsNaN(x) == x.den = 0
Whole(k) == [num |-> k, den |-> 1]

Clip(i, lo, hi) == IF i < lo THEN lo ELSE IF i > hi THEN hi ELSE i

\* "np.where(ep > 0, (price_2d - ep) / ep * 100, np.nan)", in units of 0.2 %
RawPct(p, ep) == IF ep > 0 THEN [num |-> (p - ep) * 500, den |-> ep] ELSE NaN

\* entry_idx = clip(searchsorted(...), 0, m - 1); 0-based
EntryIdx(ps, pos) == Clip(pos, 0, Len(ps) - 1)
EntryPrice(ps, pos) == ps[EntryIdx(ps, pos) + 1]

\* One row of _build_pct_matrix: column off (0-based) is NaN when
\* entry_idx + off >= m, else the pct change of prices[entry_idx + off].
BuildPctRow(ps, pos) ==
    LET m  == Len(ps)
        e  == EntryIdx(ps, pos)
        ep == ps[e + 1]
    IN  [c \in 1..MaxHold |->
            IF e + (c - 1) >= m THEN NaN
            ELSE RawPct(ps[Clip(e + (c - 1), 0, m - 1) + 1], ep)]

\* "directed = raw_pct[mask] * signs[:, None]"
DirectedRow(row, sgn) ==
    [c \in 1..Len(row) |->
        IF IsNaN(row[c]) THEN NaN ELSE [num |-> sgn * row[c].num, den |-> row[c].den]]

\* "directed >= tp", "directed <= -sl": comparisons with NaN are False
GeUnits_NaNCounts(x, k) == IsNaN(x) \/ x.num >= k * x.den

GeUnits(x, k) == ~IsNaN(x) /\ x.num >= k * x.den
LeUnits(x, k) == ~IsNaN(x) /\ x.num <= k * x.den

\* "np.where(b.any(axis=1), np.argmax(b, axis=1), MAX_HOLD)", 0-based
FirstTrue(b) ==
    IF \E c \in 1..Len(b) : b[c]
    THEN (CHOOSE c \in 1..Len(b) : b[c] /\ \A d \in 1..(c - 1) : ~b[d]) - 1
    ELSE MaxHold

\* valid_counts, last_idx, final_rets (NaN replaced by 0.0)
FinalRet(row) ==
    LET valid_counts == Cardinality({c \in 1..Len(row) : ~IsNaN(row[c])})
        last_idx == Clip(valid_counts - 1, 0, MaxHold - 1)
        v == row[last_idx + 1]
    IN  IF IsNaN(v) THEN Whole(0) ELSE v

\* A plausible slip: the order of the two first hits is not compared.
TpWins_IgnoreOrder(tp_first, sl_first) == tp_first < MaxHold

\* "tp_wins = (tp_first <= sl_first) & (tp_first < MAX_HOLD)"
TpWins(tp_first, sl_first) == (tp_first <= sl_first) /\ (tp_first < MaxHold)

\* "sl_hits = (sl_first < tp_first) & (sl_first < MAX_HOLD)"
SlHits(tp_first, sl_first) == (sl_first < tp_first) /\ (sl_first < MaxHold)

\* "rets = np.where(tp_wins, tp - fee_pct,
\*                  np.where(sl_hits, -sl - fee_pct, final_rets - fee_pct))"
ResolveRow(row, t, s) ==
    LET tp_first == FirstTrue([c \in 1..Len(row) |-> GeUnits(row[c], t)])
        sl_first == FirstTrue([c \in 1..Len(row) |-> LeUnits(row[c], -s)])
        fin == FinalRet(row)
    IN  IF TpWins(tp_first, sl_first) THEN Whole(t - FEE_UNITS)
        ELSE IF SlHits(tp_first, sl_first) THEN Whole(-s - FEE_UNITS)
        ELSE [num |-> fin.num - FEE_UNITS * fin.den, den |-> fin.den]

\* _grid_search_channel / _evaluate_params: build the matrix row of a signal;
\* "valid_entry = entry_prices > 0" masks the row out otherwise.
BuildPctMatrix ==
    /\ x_pc = "in"
    /\ IF EntryPrice(prices, entry_pos) > 0
       THEN /\ directed' = DirectedRow(BuildPctRow(prices, entry_pos), dir_sign)
            /\ x_pc' = "built"
       ELSE /\ directed' = << >>
            /\ x_pc' = "excluded"
    /\ UNCHANGED <<x_fn, prices, entry_pos, dir_sign, tp, sl, x_ret>>
    /\ UNCHANGED notExit

\* _search_tpsl: the (tp, sl) cell of the in-sample grid, for this row
SearchTpsl ==
    /\ x_pc = "built" /\ x_fn = "_search_tpsl"
    /\ x_ret' = ResolveRow(directed, tp, sl)
    /\ x_pc' = "resolved"
    /\ UNCHANGED <<x_fn, prices, entry_pos, dir_sign, tp, sl, directed>>
    /\ UNCHANGED notExit

\* _evaluate_params: the selected (tp, sl), for this out-of-sample row
EvaluateParams ==
    /\ x_pc = "built" /\ x_fn = "_evaluate_params"
    /\ x_ret' = ResolveRow(directed, tp, sl)
    /\ x_pc' = "resolved"
    /\ UNCHANGED <<x_fn, prices, entry_pos, dir_sign, tp, sl, directed>>
    /\ UNCHANGED notExit

ExitInit ==
    /\ StreakIdle /\ SplitIdle /\ WfIdle /\ PfIdle /\ BatchIdle /\ CtxIdle /\ LkIdle /\ EntryIdle /\ MetricIdle /\ McIdle /\ ZoneIdle /\ TouchIdle /\ FillIdle /\ HistIdle
    /\ x_pc = "in"
    /\ x_fn \in {"_search_tpsl", "_evaluate_params"}
    /\ \E m \in 1..MaxSeries : prices \in [1..m -> PriceVals]
    /\ entry_pos \in 0..Len(prices)
    /\ dir_sign \in {1, -1}
    /\ tp \in GridSample /\ sl \in GridSample
    /\ directed = << >>
    /\ x_ret = NoRet

ExitNext == BuildPctMatrix \/ SearchTpsl \/ EvaluateParams

SpecExit == ExitInit /\ [][ExitNext]_vars

\* C3: for every signal path and every (tp, sl) exactly one case applies: TP
\* hit and its first-hit index <= the SL first-hit index (ties included) gives
\* +tp - fee; otherwise SL hit gives -sl - fee; otherwise the result is the
\* directed return at the last available path index minus fee.
Avail == {c \in 1..Len(directed) : ~IsNaN(directed[c])}
TpAt == {c \in Avail : directed[c].num >= tp * directed[c].den}
SlAt == {c \in Avail : directed[c].num <= (-sl) * directed[c].den}
MinOf(S) == CHOOSE c \in S : \A d \in S : c <= d
MaxOf(S) == CHOOSE c \in S : \A d \in S : c >= d

C3_ExitResolution ==
    x_pc = "resolved" =>
        LET tpCase == TpAt # {} /\ (SlAt = {} \/ MinOf(TpAt) <= MinOf(SlAt))
            slCase == ~tpCase /\ SlAt # {}
            last   == directed[MaxOf(Avail)]
        IN  /\ (tpCase => x_ret = Whole(tp - FEE_UNITS))
            /\ (slCase => x_ret = Whole(-sl - FEE_UNITS))
            /\ (~tpCase /\ ~slCase =>
                   x_ret = [num |-> last.num - FEE_UNITS * last.den, den |-> last.den])

\* both boundaries are crossed on the path, the stop-loss first
C3_Witness ==
    /\ x_pc = "resolved"
    /\ TpAt # {} /\ SlAt # {} /\ MinOf(SlAt) < MinOf(TpAt)
    /\ x_ret = Whole(-sl - FEE_UNITS)

-----------------------------------------------------------------------------
(* IS/OOS split: analyze.split_is_oos, sim_engine._load_merged,             *)
(* zone_test._run_grid                                                     *)

\* analyze.py IS_RATIO = 0.70, as the fraction 7/10
IS_RATIO_NUM == 7
IS_RATIO_DEN == 10
\* sim_engine.py OOS_CUTOFF = "2025-11-05", a point of the model's time axis
OOS_CUTOFF == 2

Row(i, t) == [id |-> i, ts |-> t]

\* "sorted_ts.iloc[k]": the k-th smallest timestamp, k 0-based
SortedAt(df, k) ==
    CHOOSE v \in {df[i].ts : i \in 1..Len(df)} :
        /\ Cardinality({i \in 1..Len(df) : df[i].ts < v}) <= k
        /\ Cardinality({i \in 1..Len(df) : df[i].ts <= v}) > k

\* "int(len(sorted_ts) * IS_RATIO)"; equal to the float product's floor for
\* every length within the bounds
SplitIndex(n) == (n * IS_RATIO_NUM) \div IS_RATIO_DEN

SplitTs(df) == SortedAt(df, SplitIndex(Len(df)))

Before(df, t) == SelectSeq(df, LAMBDA r : r.ts < t)
NotBefore(df, t) == SelectSeq(df, LAMBDA r : r.ts >= t)
UpTo(df, t) == SelectSeq(df, LAMBDA r : r.ts <= t)
After(df, t) == SelectSeq(df, LAMBDA r : r.ts > t)

\* A plausible slip: the first 70 % of the rows by position, without sorting.
split_is_oos_Positional(df) ==
    [done |-> TRUE,
     is   |-> SubSeq(df, 1, SplitIndex(Len(df))),
     oos  |-> SubSeq(df, SplitIndex(Len(df)) + 1, Len(df))]

\* "return df[df[ts_col] < split_ts].copy(), df[df[ts_col] >= split_ts].copy()"
split_is_oos(df) ==
    [done |-> TRUE, is |-> Before(df, SplitTs(df)), oos |-> NotBefore(df, SplitTs(df))]

HasContext(r) == \E i \in 1..Len(df_context) : df_context[i].id = r.id

\* _load_merged: the time mask, then the inner join with the context on id
\* (the frame is already in timestamp order)
_load_merged(after_cutoff) ==
    SelectSeq(IF after_cutoff THEN NotBefore(df_signals, OOS_CUTOFF)
                              ELSE Before(df_signals, OOS_CUTOFF),
              HasContext)

\* analyze.main: "df_sig_is, df_sig_oos = split_is_oos(df_signals)"
SplitSignals ==
    /\ Len(df_signals) > 0 /\ ~parts["signals"].done
    /\ parts' = [parts EXCEPT !["signals"] = split_is_oos(df_signals)]
    /\ UNCHANGED <<df_signals, df_context, entry_ts>>
    /\ UNCHANGED notSplit

\* analyze.main: "df_ctx_is, df_ctx_oos = split_is_oos(df_context, 'signal_timestamp')"
\* (an empty frame makes iloc raise IndexError: no split is produced)
SplitContexts ==
    /\ Len(df_context) > 0 /\ ~parts["contexts"].done
    /\ parts' = [parts EXCEPT !["contexts"] = split_is_oos(df_context)]
    /\ UNCHANGED <<df_signals, df_context, entry_ts>>
    /\ UNCHANGED notSplit

\* sim_engine.run_all_simulations: load_oos_data and load_preseed_data
LoadMerged ==
    /\ Len(df_signals) > 0 /\ ~parts["sim_engine"].done
    /\ parts' = [parts EXCEPT !["sim_engine"] =
                    [done |-> TRUE, is |-> _load_merged(FALSE), oos |-> _load_merged(TRUE)]]
    /\ UNCHANGED <<df_signals, df_context, entry_ts>>
    /\ UNCHANGED notSplit

\* zone_test.main / _run_grid: split_sec from the signals, then
\* "is_m = mask & (entry_ts <= split_sec)", "oos_m = mask & (entry_ts > split_sec)"
RunGridMasks ==
    /\ Len(df_signals) > 0 /\ ~parts["entries"].done
    /\ LET split_sec == SplitTs(df_signals) IN
       parts' = [parts EXCEPT !["entries"] =
                    [done |-> TRUE, is |-> UpTo(entry_ts, split_sec),
                     oos |-> After(entry_ts, split_sec)]]
    /\ UNCHANGED <<df_signals, df_context, entry_ts>>
    /\ UNCHANGED notSplit

\* deep_analysis._prepare_merged: "df_signals.merge(df_context, left_on='id',
\* right_on='signal_id', how='inner')", then sort_values("timestamp") (the
\* signals are in timestamp order already)
_prepare_merged(sigs, ctxs) ==
    SelectSeq(sigs, LAMBDA r : \E i \in 1..Len(ctxs) : ctxs[i].id = r.id)

\* deep_analysis._run_analyses on the four frames analyze.main has split:
\* "mi = _prepare_merged(df_sig_is, df_ctx_is, fee_pct)" and
\* "mo = _prepare_merged(df_sig_oos, df_ctx_oos, fee_pct)"
RunAnalyses ==
    /\ parts["signals"].done /\ parts["contexts"].done /\ ~parts["merged"].done
    /\ parts' = [parts EXCEPT !["merged"] =
                    [done |-> TRUE,
                     is   |-> _prepare_merged(parts["signals"].is, parts["contexts"].is),
                     oos  |-> _prepare_merged(parts["signals"].oos, parts["contexts"].oos)]]
    /\ UNCHANGED <<df_signals, df_context, entry_ts>>
    /\ UNCHANGED notSplit

Sorted(df) == \A i, j \in 1..Len(df) : i < j => df[i].ts <= df[j].ts
Injective(f) == \A i, j \in DOMAIN f : i # j => f[i] # f[j]

SplitInit ==
    /\ StreakIdle /\ ExitIdle /\ WfIdle /\ PfIdle /\ BatchIdle /\ CtxIdle /\ LkIdle /\ EntryIdle /\ MetricIdle /\ McIdle /\ ZoneIdle /\ TouchIdle /\ FillIdle /\ HistIdle
    /\ \E n \in 1..MaxRows :
         /\ \E t \in [1..n -> 1..MaxTs] :
              /\ df_signals = [i \in 1..n |-> Row(i, t[i])]
              /\ Sorted(df_signals)
         /\ \E k \in 0..n : \E pick \in [1..k -> 1..n] :
              /\ Injective(pick)
              /\ df_context = [i \in 1..k |-> df_signals[pick[i]]]
    /\ \E k \in 0..MaxEntries : \E t \in [1..k -> 1..MaxTs] :
         entry_ts = [i \in 1..k |-> Row(i, t[i])]
    /\ parts = [o \in SplitOps |-> NoPart]

SplitNext == SplitSignals \/ SplitContexts \/ LoadMerged \/ RunGridMasks \/ RunAnalyses

SpecSplit == SplitInit /\ [][SplitNext]_vars

\* C10: for every IS/OOS split, every in-sample timestamp is <= every
\* out-of-sample timestamp.
C10_Chronological ==
    \A o \in SplitOps :
        parts[o].done =>
            \A i \in 1..Len(parts[o].is), j \in 1..Len(parts[o].oos) :
                parts[o].is[i].ts <= parts[o].oos[j].ts

\* a context frame that is not in timestamp order, split into two non-empty sides
C10_Witness ==
    /\ parts["contexts"].done
    /\ Len(parts["contexts"].is) > 0 /\ Len(parts["contexts"].oos) > 0
    /\ ~Sorted(df_context)

-----------------------------------------------------------------------------
(* Walk-forward: select on the in-sample side, evaluate once out of sample *)

\* A Sharpe ratio is an integer in units of its last reported decimal (1e-4).
IsSharpeVals == {-1, 0, 1, 2}
OosSharpeVals == {-1, 1}
AllSharpeVals == {-2, 0, 3}
OosTradeVals == {4, 5}

WfKinds == {"optimal_params", "deep_analysis", "orderbook_h1", "zone_test"}

\* optimal_params.py "if mask.sum() < 20: continue"
MIN_MASK == 20
\* optimal_params.py "if len(rets) < 10: continue"
MIN_RETS == 10
\* orderbook_config.py / zone_test.py MIN_TRADES
MIN_TRADES == 20
\* "if len(directional) < 5", "if len(oos_sel) >= 5", "if len(oos_r) >= 5"
MIN_OOS == 5
\* orderbook_h1_imbalance.py _test_combo "if active.sum() < 2"
MIN_ACTIVE == 2
\* zone_test.py "for r in with_is[:3]"
TOP_N == 3

\* the in-sample trade-count floor a grid point must meet to be a candidate
Floor(kind) ==
    CASE kind = "optimal_params" -> IF MIN_MASK > MIN_RETS THEN MIN_MASK ELSE MIN_RETS
      [] kind = "deep_analysis"  -> MIN_SEL_IS
      [] kind = "orderbook_h1"   -> MIN_TRADES
      [] kind = "zone_test"      -> MIN_TRADES

Stat(n, sh) == [trades |-> n, sharpe |-> sh]
\* "{}" : the statistics were not computed
NoStats == [trades |-> -1, sharpe |-> 0]
HasStats(st) == st # NoStats
\* d.get("sharpe", 0)
GetSharpe(st) == IF HasStats(st) THEN st.sharpe ELSE 0

\* "if best is None or sharpe > best['sharpe']: best = ..." over the grid in
\* iteration order, candidates being the points that meet the floor
RECURSIVE ScanBest(_, _, _, _)
ScanBest(g, best, st, floor) ==
    IF g > Len(st) THEN best
    ELSE IF st[g].trades < floor THEN ScanBest(g + 1, best, st, floor)
    ELSE IF best = 0 \/ st[g].sharpe > st[best].sharpe
         THEN ScanBest(g + 1, g, st, floor)
         ELSE ScanBest(g + 1, best, st, floor)

\* A plausible slip: the trade-count floor is not applied.
SearchBest_NoFloor(kind, st) == ScanBest(1, 0, st, 0)

\* the grid search of one analysis (for optimal_params: the mask floor of
\* _grid_search_channel, then "len(rets) < 10" in _search_tpsl)
SearchBest(kind, st) == ScanBest(1, 0, st, Floor(kind))

\* the out-of-sample statistics as the analysis reports them
OosReported(kind, st) ==
    CASE kind = "optimal_params" -> IF st.trades < MIN_OOS THEN Stat(0, 0) ELSE st
      [] kind = "deep_analysis"  -> IF st.trades >= MIN_OOS THEN st ELSE NoStats
      [] kind = "orderbook_h1"   -> IF st.trades < MIN_ACTIVE THEN Stat(0, 0) ELSE st
      [] kind = "zone_test"      -> IF st.trades >= MIN_OOS THEN st ELSE NoStats

\* A plausible slip: the in-sample Sharpe is not required to be positive.
Overfit_NoSign(is_sh, oos_sh) == 2 * oos_sh < is_sh

\* "is_sh > 0 and oos_sh < is_sh * 0.5" (OVERFITTING_RATIO = 0.5)
Overfit(is_sh, oos_sh) == is_sh > 0 /\ 2 * oos_sh < is_sh

Tri(b) == IF b THEN "true" ELSE "false"

\* the verdict of grid point g
Verdict(kind, g, ist, ost) ==
    LET rep == OosReported(kind, ost[g])
        ovf == Overfit(ist[g].sharpe, GetSharpe(rep))
    IN  [ params     |-> g,
          is_sharpe  |-> ist[g].sharpe,
          oos        |-> rep,
          overfitted |-> IF kind = "zone_test" /\ ~HasStats(rep)
                         THEN "null" ELSE Tri(ovf) ]

\* list.sort(key=..., reverse=True): descending, equal keys keep their order
Precedes(a, b, sq, key) ==
    \/ key[sq[a]] > key[sq[b]]
    \/ key[sq[a]] = key[sq[b]] /\ a < b
SortDesc(sq, key) ==
    [k \in 1..Len(sq) |->
        sq[CHOOSE a \in 1..Len(sq) :
              Cardinality({b \in 1..Len(sq) : Precedes(b, a, sq, key)}) = k - 1]]

Head3(sq) == SubSeq(sq, 1, IF Len(sq) < TOP_N THEN Len(sq) ELSE TOP_N)

\* zone_test._run_grid: results sorted by hz["1h"]["sharpe"] over all entries
GridSorted(alls) == SortDesc([g \in 1..Len(alls) |-> g], alls)

\* zone_test._walk_forward: combos with is_1h trades >= MIN_TRADES, by IS Sharpe
WithIs(grid, ist) ==
    LET ok(g) == ist[g].trades >= MIN_TRADES
    IN  SortDesc(SelectSeq(grid, ok), [g \in 1..Len(ist) |-> ist[g].sharpe])

\* optimal_params.run, deep_analysis._streak_grid, orderbook _walk_forward:
\* the grid search over the in-sample side
GridSearch ==
    /\ wf_pc = "in" /\ wf_kind # "zone_test"
    /\ LET best == SearchBest(wf_kind, is_stats)
       IN  /\ best_params' = best
           /\ wf_pc' = IF best = 0 THEN "skipped" ELSE "searched"
           /\ wf_reason' =
                IF best # 0 THEN ""
                ELSE CASE wf_kind = "optimal_params" -> "no valid params"
                       [] wf_kind = "deep_analysis"  -> "no valid combo"
                       [] wf_kind = "orderbook_h1"   -> "no IS combo with enough trades"
    /\ UNCHANGED <<wf_kind, is_stats, oos_stats, all_sharpe, wf_top>>
    /\ UNCHANGED notWf

\* the selected point evaluated on the out-of-sample side, and the flag
EvaluateOOS ==
    /\ wf_pc = "searched" /\ wf_kind # "zone_test"
    /\ wf_top' = << Verdict(wf_kind, best_params, is_stats, oos_stats) >>
    /\ wf_pc' = "done"
    /\ UNCHANGED <<wf_kind, is_stats, oos_stats, all_sharpe, best_params, wf_reason>>
    /\ UNCHANGED notWf

\* zone_test._analyze_channel: grid = _run_grid(...); wf = _walk_forward(grid);
\* best = grid[0]
AnalyzeChannel ==
    /\ wf_pc = "in" /\ wf_kind = "zone_test"
    /\ LET grid == GridSorted(all_sharpe)
           top  == Head3(WithIs(grid, is_stats))
       IN  /\ best_params' = grid[1]
           /\ wf_top' = [k \in 1..Len(top) |->
                            Verdict(wf_kind, top[k], is_stats, oos_stats)]
    /\ wf_pc' = "done"
    /\ UNCHANGED <<wf_kind, is_stats, oos_stats, all_sharpe, wf_reason>>
    /\ UNCHANGED notWf

WfInit ==
    /\ StreakIdle /\ ExitIdle /\ SplitIdle /\ PfIdle /\ BatchIdle /\ CtxIdle /\ LkIdle /\ EntryIdle /\ MetricIdle /\ McIdle /\ ZoneIdle /\ TouchIdle /\ FillIdle /\ HistIdle
    /\ wf_kind \in WfKinds
    /\ wf_pc = "in"
    /\ is_stats \in [1..MaxGrid -> {Stat(n, sh) : n \in {Floor(wf_kind) - 1, Floor(wf_kind)},
                                                  sh \in IsSharpeVals}]
    /\ oos_stats \in [1..MaxGrid -> {Stat(0, 0)} \cup
                          {Stat(n, sh) : n \in OosTradeVals, sh \in OosSharpeVals}]
    /\ all_sharpe \in [1..MaxGrid -> AllSharpeVals \cup IsSharpeVals]
    \* all entries = in-sample entries + out-of-sample entries: two sides whose
    \* mean return has the same sign give an all-data Sharpe of that sign
    /\ \A g \in 1..MaxGrid :
          IF wf_kind = "zone_test" /\ oos_stats[g].trades > 0
          THEN /\ all_sharpe[g] \in AllSharpeVals
               /\ is_stats[g].sharpe <= 0 /\ oos_stats[g].sharpe <= 0 => all_sharpe[g] < 0
               /\ is_stats[g].sharpe >= 0 /\ oos_stats[g].sharpe >= 0 => all_sharpe[g] > 0
          ELSE all_sharpe[g] = is_stats[g].sharpe
    /\ best_params = 0 /\ wf_top = << >> /\ wf_reason = ""

WfNext == GridSearch \/ EvaluateOOS \/ AnalyzeChannel

SpecWalkForward == WfInit /\ [][WfNext]_vars

\* the grid point the same analysis reports when the out-of-sample side is
\* empty (no entries, all-data statistics equal to the in-sample ones)
BestWithoutOOS ==
    IF wf_kind = "zone_test"
    THEN GridSorted([g \in 1..MaxGrid |-> is_stats[g].sharpe])[1]
    ELSE SearchBest(wf_kind, is_stats)

\* C1: the grid point reported as best is determined by the in-sample data
\* only: the same in-sample data with any other out-of-sample data (here: with
\* none) yields the same reported grid point.
C1_SelectionIgnoresOOS ==
    wf_pc = "done" => best_params = BestWithoutOOS

\* the three analyses whose search only ever receives the in-sample side
C1_HoldsOutsideZoneTest ==
    wf_pc = "done" /\ wf_kind # "zone_test" => best_params = BestWithoutOOS

\* C7: the overfitting flag of a walk-forward result is true iff the
\* in-sample Sharpe is > 0 and the out-of-sample Sharpe is < 0.5 x the
\* in-sample Sharpe (the out-of-sample Sharpe read as the analysis reads it,
\* 0 when its statistics are empty; a null flag is no verdict).
C7_OverfitFlag ==
    \A k \in 1..Len(wf_top) :
        wf_top[k].overfitted # "null" =>
            ( wf_top[k].overfitted = "true"
              <=> ( wf_top[k].is_sharpe > 0
                    /\ 2 * GetSharpe(wf_top[k].oos) < wf_top[k].is_sharpe ) )

\* a verdict whose out-of-sample Sharpe is exactly half the in-sample one:
\* computed, and not flagged
C7_Witness ==
    /\ wf_pc = "done" /\ Len(wf_top) = 1
    /\ wf_top[1].is_sharpe = 2 /\ HasStats(wf_top[1].oos)
    /\ wf_top[1].oos.sharpe = 1 /\ wf_top[1].oos.trades >= MIN_OOS
    /\ wf_top[1].overfitted = "false"

-----------------------------------------------------------------------------
(* Portfolio simulation: one row of the timestamp-ordered frame at a time *)

\* sim_engine.py STRATEGIES keys; risk_metrics.py takes any channel_name
PfChannels == {"DMI_SMF", "DyorAlerts", "Scalp17"}
StrategyOf(ch) ==
    CASE ch = "DMI_SMF"    -> <<4, 1>>
      [] ch = "DyorAlerts" -> <<2, 1>>
      [] ch = "Scalp17"    -> <<5, 1>>

\* risk_metrics.py HOLD_MINUTES
HOLD_MINUTES == 60
\* sim_engine.py HORIZONS: 5m, 15m, 1h, 4h, in minutes
HORIZON_MINUTES == {5, 15, 60, 240}
\* minutes between two consecutive rows of the frame
TsDeltas == {0, 30, 60}

NoExpiry == -1

\* the row's channel has an accepted position whose hold window contains ts
Within(ch, ts) == pos_until[ch] # NoExpiry /\ ts < pos_until[ch]

\* "if ch in open_until and ts < open_until[ch]"
Overlaps(ou, ch, ts) == ou[ch] # NoExpiry /\ ts < ou[ch]

\* risk_metrics._portfolio_simulation: one iteration of "for _, row in merged.iterrows()"
PortfolioSimulationRow ==
    /\ pf_mode = "risk_metrics" /\ pf_n < MaxPfRows
    /\ \E ch \in PfChannels, d \in TsDeltas :
        LET ts == pf_ts + d
        IN  /\ pf_ts' = ts
            /\ IF Overlaps(open_until, ch, ts)
               THEN /\ skipped' = skipped + 1
                    /\ UNCHANGED <<open_until, pos_until, n_accepted>>
                    /\ pf_last' = [ch |-> ch, within |-> Within(ch, ts), accepted |-> FALSE]
               ELSE /\ open_until' = [open_until EXCEPT ![ch] = ts + hold]
                    /\ pos_until' = [pos_until EXCEPT ![ch] = ts + hold]
                    /\ n_accepted' = n_accepted + 1
                    /\ skipped' = skipped
                    /\ pf_last' = [ch |-> ch, within |-> Within(ch, ts), accepted |-> TRUE]
    /\ pf_n' = pf_n + 1
    /\ UNCHANGED <<pf_mode, hold, ch_state, size_pct, capital, trade_log, equity_curve>>
    /\ UNCHANGED notPf

\* sim_engine.py INITIAL_CAPITAL and POSITION_SIZES
INITIAL_CAPITAL == 10000
POSITION_SIZES == {1, 2, 5, 10}

\* net_ret_pct = row[col] * row["dir_sign"] - FEE_PCT, in %
NetReturns == {-20, 20}

\* "outcome = 1 if net_ret_pct > 0 else 0"
OutcomeOf(net) == IF net > 0 THEN 1 ELSE 0

RECURSIVE Gcd(_, _)
Gcd(a, b) == IF b = 0 THEN a ELSE Gcd(b, a % b)

\* a fraction in lowest terms
Frac(n, d) == [num |-> n \div Gcd(n, d), den |-> d \div Gcd(n, d)]

\* A plausible slip: the position is sized from the initial capital.
Position_Fixed(cap, size) == Frac(INITIAL_CAPITAL * size, 100)

\* "position = capital * size_pct / 100.0"
Position(cap, size) == Frac(cap.num * size, cap.den * 100)

\* a + b
FracAdd(a, b) ==
    LET g == Gcd(a.den, b.den)
    IN  Frac(a.num * (b.den \div g) + b.num * (a.den \div g), (a.den \div g) * b.den)

\* "pnl = position * net_ret_pct / 100.0"
Pnl(pos, net) == Frac(pos.num * net, pos.den * 100)

\* "capital += pnl"
CapitalAfter(cap, size, net) == FracAdd(cap, Pnl(Position(cap, size), net))

\* sim_engine.simulate: one iteration of "for _, row in df.iterrows()"
SimulateRow ==
    /\ pf_mode = "sim_engine" /\ pf_n < MaxPfRows
    \* timestamps are counted from the first row of the frame
    /\ \E ch \in PfChannels, d \in (IF pf_n = 0 THEN {0} ELSE TsDeltas), net \in NetReturns :
        LET ts == pf_ts + d
            o  == OutcomeOf(net)
            r  == StreakStep(ch_state[ch], o, StrategyOf(ch)[1], StrategyOf(ch)[2])
        IN  /\ pf_ts' = ts
            /\ IF r.in_active
               THEN /\ capital' = CapitalAfter(capital, size_pct, net)
                    /\ trade_log' = Append(trade_log, [timestamp |-> ts, channel |-> ch])
                    /\ equity_curve' = Append(equity_curve, ts)
               ELSE UNCHANGED <<capital, trade_log, equity_curve>>
            /\ ch_state' = [ch_state EXCEPT
                              ![ch] = StateOf(r.win_streak, r.loss_streak, r.active)]
            /\ pf_last' = [ch |-> ch, within |-> Within(ch, ts), accepted |-> r.in_active]
            /\ n_accepted' = IF r.in_active THEN n_accepted + 1 ELSE n_accepted
            /\ pos_until' = IF r.in_active
                            THEN [pos_until EXCEPT ![ch] = ts + hold]
                            ELSE pos_until
    /\ pf_n' = pf_n + 1
    /\ UNCHANGED <<pf_mode, hold, open_until, skipped, size_pct>>
    /\ UNCHANGED notPf

PfInit ==
    /\ StreakIdle /\ ExitIdle /\ SplitIdle /\ WfIdle /\ BatchIdle /\ CtxIdle /\ LkIdle /\ EntryIdle /\ MetricIdle /\ McIdle /\ ZoneIdle /\ TouchIdle /\ FillIdle /\ HistIdle
    /\ pf_mode \in {"risk_metrics", "sim_engine"}
    /\ hold \in (IF pf_mode = "risk_metrics" THEN {HOLD_MINUTES} ELSE HORIZON_MINUTES)
    /\ pf_n = 0 /\ pf_ts = 0
    /\ open_until = [ch \in PfChannels |-> NoExpiry]
    /\ pos_until = [ch \in PfChannels |-> NoExpiry]
    \* _preseed_streak_state: a state the in-sample replay can end in
    /\ ch_state \in [PfChannels -> [win_streak : 0..6, loss_streak : {0}, active : BOOLEAN]]
    /\ \A ch \in PfChannels :
          IF pf_mode = "sim_engine"
          THEN \/ ch_state[ch] = StateOf(0, 0, FALSE)
               \/ ch_state[ch] = StateOf(StrategyOf(ch)[1] + 1, 0, TRUE)
          ELSE ch_state[ch] = StateOf(0, 0, FALSE)
    /\ pf_last = [ch |-> "none", within |-> FALSE, accepted |-> FALSE]
    /\ skipped = 0 /\ n_accepted = 0
    /\ size_pct \in (IF pf_mode = "sim_engine" THEN {s \in POSITION_SIZES : s >= 5} ELSE {0})
    /\ capital = (IF pf_mode = "sim_engine" THEN [num |-> INITIAL_CAPITAL, den |-> 1]
                  ELSE [num |-> 0, den |-> 1])
    \* "equity_curve = [{'timestamp': df['timestamp'].iloc[0], 'capital': capital}]"
    /\ equity_curve = (IF pf_mode = "sim_engine" THEN <<0>> ELSE << >>)
    /\ trade_log = << >>

PfNext == PortfolioSimulationRow \/ SimulateRow

SpecPortfolio == PfInit /\ [][PfNext]_vars

\* C4: in every portfolio simulation, the streak-filtered one included, a
\* signal of a channel that arrives while that channel's previously accepted
\* position is still within its hold window is skipped.
C4_OnePositionPerChannel ==
    pf_last.within => ~pf_last.accepted

\* risk_metrics._portfolio_simulation alone does enforce it
C4_HoldsInRiskMetrics ==
    pf_mode = "risk_metrics" /\ pf_last.within => ~pf_last.accepted

-----------------------------------------------------------------------------
(* Per-channel loops of the batch analyses and what their callers keep *)

BatchChannels == 1..MaxChannels
\* the channel the DMI_SMF deep dive works on
DMI_SMF == 1

\* optimal_params.py MIN_SIGNALS_WF
MIN_SIGNALS_WF == 100
\* monte_carlo.py MIN_SIGNALS
MIN_SIGNALS == 50
\* deep_analysis.py MIN_TRADES
DEEP_MIN_TRADES == 30

BatchModules == {"optimal_params", "monte_carlo", "deep_analysis"}

\* the loops a module runs, in order
FnsOf(mod) ==
    CASE mod = "optimal_params" -> << "run" >>
      [] mod = "monte_carlo"    -> << "_direction_shuffle", "_timestamp_shuffle" >>
      [] mod = "deep_analysis"  -> << "_analysis_streak", "_analysis_contrarian",
                                      "_analysis_dmi_deep" >>

BatchFns == {"run", "_direction_shuffle", "_timestamp_shuffle",
             "_analysis_streak", "_analysis_contrarian", "_analysis_dmi_deep"}

MinCount(fn) ==
    CASE fn = "run" -> MIN_SIGNALS_WF
      [] fn \in {"_direction_shuffle", "_timestamp_shuffle"} -> MIN_SIGNALS
      [] OTHER -> DEEP_MIN_TRADES

\* the units of work of a loop
Units(fn) == IF fn = "_analysis_dmi_deep" THEN {DMI_SMF} ELSE BatchChannels

Absent == [present |-> FALSE, skipped |-> FALSE, reason |-> ""]
\* {"skipped": True, "reason": r}; r = "" when there is no "reason" key
SkipEntry(r) == [present |-> TRUE, skipped |-> TRUE, reason |-> r]
ResultEntry == [present |-> TRUE, skipped |-> FALSE, reason |-> ""]

NoResults == [fn \in BatchFns |-> [ch \in BatchChannels |-> Absent]]

Put(fn, ch, e) == b_result' = [b_result EXCEPT ![fn][ch] = e]

Raise(ch) ==
    /\ b_pc' = "raised" /\ b_failed' = ch
    /\ UNCHANGED b_result

InLoop(fn) == b_pc = "run" /\ b_fn = fn /\ b_i < MaxChannels

\* optimal_params.run: one iteration of the channel loop
RunChannel ==
    /\ InLoop("run")
    /\ LET ch == b_i + 1
       IN  IF b_counts[ch] < MIN_SIGNALS_WF
           THEN Put("run", ch, SkipEntry("IS signals < 100")) /\ UNCHANGED <<b_pc, b_failed>>
           ELSE IF b_bad[ch]
           THEN Raise(ch)
           ELSE /\ \/ Put("run", ch, SkipEntry("no valid params"))
                   \/ Put("run", ch, ResultEntry)
                /\ UNCHANGED <<b_pc, b_failed>>
    /\ b_i' = b_i + 1
    /\ UNCHANGED <<b_module, b_fn, b_counts, b_bad>>
    /\ UNCHANGED notBatch

\* monte_carlo._direction_shuffle: one group of df.groupby("channel_name");
\* a channel without rows has no group
DirectionShuffleChannel ==
    /\ InLoop("_direction_shuffle")
    /\ LET ch == b_i + 1
       IN  IF b_counts[ch] < MIN_SIGNALS
           THEN UNCHANGED b_result
           ELSE Put("_direction_shuffle", ch, ResultEntry)
    /\ b_i' = b_i + 1
    /\ UNCHANGED <<b_module, b_fn, b_counts, b_bad, b_pc, b_failed>>
    /\ UNCHANGED notBatch

\* monte_carlo._timestamp_shuffle (price history of at least 100 samples)
TimestampShuffleChannel ==
    /\ InLoop("_timestamp_shuffle")
    /\ LET ch == b_i + 1
       IN  IF b_counts[ch] < MIN_SIGNALS
           THEN UNCHANGED b_result
           ELSE Put("_timestamp_shuffle", ch, ResultEntry)
    /\ b_i' = b_i + 1
    /\ UNCHANGED <<b_module, b_fn, b_counts, b_bad, b_pc, b_failed>>
    /\ UNCHANGED notBatch

\* deep_analysis._analysis_streak: the loop runs over the channels present in
\* merged_is
AnalysisStreakChannel ==
    /\ InLoop("_analysis_streak")
    /\ LET ch == b_i + 1
       IN  IF b_counts[ch] = 0
           THEN UNCHANGED b_result
           ELSE IF b_counts[ch] < DEEP_MIN_TRADES
           THEN Put("_analysis_streak", ch, SkipEntry("IS < 30"))
           ELSE \/ Put("_analysis_streak", ch, SkipEntry("no valid combo"))
                \/ Put("_analysis_streak", ch, ResultEntry)
    /\ b_i' = b_i + 1
    /\ UNCHANGED <<b_module, b_fn, b_counts, b_bad, b_pc, b_failed>>
    /\ UNCHANGED notBatch

\* deep_analysis._analysis_contrarian: result[ch] = {"skipped": True}
AnalysisContrarianChannel ==
    /\ InLoop("_analysis_contrarian")
    /\ LET ch == b_i + 1
       IN  IF b_counts[ch] < DEEP_MIN_TRADES
           THEN Put("_analysis_contrarian", ch, SkipEntry(""))
           ELSE Put("_analysis_contrarian", ch, ResultEntry)
    /\ b_i' = b_i + 1
    /\ UNCHANGED <<b_module, b_fn, b_counts, b_bad, b_pc, b_failed>>
    /\ UNCHANGED notBatch

\* deep_analysis._analysis_dmi_deep: a single unit; _build_regimes raises on
\* a price history whose quantile edges are not unique
AnalysisDmiDeep ==
    /\ b_pc = "run" /\ b_fn = "_analysis_dmi_deep" /\ b_i = 0
    /\ IF b_counts[DMI_SMF] < DEEP_MIN_TRADES
       THEN Put("_analysis_dmi_deep", DMI_SMF, SkipEntry("IS < 30"))
            /\ UNCHANGED <<b_pc, b_failed>>
       ELSE IF b_bad[DMI_SMF]
       THEN Raise(DMI_SMF)
       ELSE Put("_analysis_dmi_deep", DMI_SMF, ResultEntry) /\ UNCHANGED <<b_pc, b_failed>>
    /\ b_i' = MaxChannels
    /\ UNCHANGED <<b_module, b_fn, b_counts, b_bad>>
    /\ UNCHANGED notBatch

Last(sq) == sq[Len(sq)]
IndexOf(sq, x) == CHOOSE k \in 1..Len(sq) : sq[k] = x

\* the loop returned its dict; the module goes on to its next loop
LoopDone ==
    /\ b_pc = "run" /\ b_i = MaxChannels
    /\ b_fn # Last(FnsOf(b_module))
    /\ b_fn' = FnsOf(b_module)[IndexOf(FnsOf(b_module), b_fn) + 1]
    /\ b_i' = 0
    /\ UNCHANGED <<b_module, b_counts, b_bad, b_result, b_pc, b_failed>>
    /\ UNCHANGED notBatch

\* analyze.main: results[name] = mod.run(...)
MainStore ==
    /\ b_pc = "run" /\ b_i = MaxChannels
    /\ b_module # "deep_analysis" /\ b_fn = Last(FnsOf(b_module))
    /\ b_pc' = "stored"
    /\ UNCHANGED <<b_module, b_fn, b_i, b_counts, b_bad, b_result, b_failed>>
    /\ UNCHANGED notBatch

\* deep_analysis._run_analyses: _write_outputs(result)
WriteOutputs ==
    /\ b_pc = "run" /\ b_i = MaxChannels
    /\ b_module = "deep_analysis" /\ b_fn = Last(FnsOf(b_module))
    /\ b_pc' = "stored"
    /\ UNCHANGED <<b_module, b_fn, b_i, b_counts, b_bad, b_result, b_failed>>
    /\ UNCHANGED notBatch

\* analyze.main: "except Exception as e: results[name] = {'error': str(e)}";
\* the dict the loop was filling is gone with the frame that raised
MainCatch ==
    /\ b_pc = "raised" /\ b_module # "deep_analysis"
    /\ b_pc' = "error"
    /\ b_result' = NoResults
    /\ UNCHANGED <<b_module, b_fn, b_i, b_counts, b_bad, b_failed>>
    /\ UNCHANGED notBatch

\* analyze.main: "except Exception as e: logger.error(...)" around
\* deep_analysis.run; nothing was written
DeepAnalysisCatch ==
    /\ b_pc = "raised" /\ b_module = "deep_analysis"
    /\ b_pc' = "lost"
    /\ b_result' = NoResults
    /\ UNCHANGED <<b_module, b_fn, b_i, b_counts, b_bad, b_failed>>
    /\ UNCHANGED notBatch

CountVals(mod) == LET m == MinCount(FnsOf(mod)[1]) IN {0, m - 1, m}

BatchInit ==
    /\ StreakIdle /\ ExitIdle /\ SplitIdle /\ WfIdle /\ PfIdle /\ CtxIdle /\ LkIdle /\ EntryIdle /\ MetricIdle /\ McIdle /\ ZoneIdle /\ TouchIdle /\ FillIdle /\ HistIdle
    /\ b_module \in BatchModules
    /\ b_fn = FnsOf(b_module)[1]
    /\ b_i = 0
    /\ b_counts \in [BatchChannels -> CountVals(b_module)]
    /\ b_bad \in [BatchChannels -> BOOLEAN]
    /\ \A ch \in BatchChannels :
          b_bad[ch] => \/ b_module = "optimal_params"
                       \/ b_module = "deep_analysis" /\ ch = DMI_SMF
    /\ b_result = NoResults
    /\ b_pc = "run" /\ b_failed = 0

BatchNext ==
    \/ RunChannel
    \/ DirectionShuffleChannel
    \/ TimestampShuffleChannel
    \/ AnalysisStreakChannel
    \/ AnalysisContrarianChannel
    \/ AnalysisDmiDeep
    \/ LoopDone
    \/ MainStore
    \/ WriteOutputs
    \/ MainCatch
    \/ DeepAnalysisCatch

SpecBatch == BatchInit /\ [][BatchNext]_vars

FnSet(mod) == {FnsOf(mod)[k] : k \in 1..Len(FnsOf(mod))}
BatchOver == b_pc \in {"stored", "error", "lost"}

\* C8: every unit of work below the component's minimum count appears in the
\* result as an explicit {skipped: true, reason} entry: never omitted, never
\* without a reason, and it never raises.
C8_SkipsAreExplicit ==
    /\ b_pc = "stored" =>
          \A fn \in FnSet(b_module) : \A ch \in Units(fn) :
              b_counts[ch] < MinCount(fn) =>
                  /\ b_result[fn][ch].present
                  /\ b_result[fn][ch].skipped
                  /\ b_result[fn][ch].reason # ""
    /\ b_failed # 0 => b_counts[b_failed] >= MinCount(b_fn)

\* the components that do write the explicit entry
C8_HoldsWhereReasonIsWritten ==
    b_pc = "stored" =>
        \A fn \in FnSet(b_module) \cap {"run", "_analysis_dmi_deep"} : \A ch \in Units(fn) :
            b_counts[ch] < MinCount(fn) =>
                b_result[fn][ch] \in {SkipEntry("IS signals < 100"), SkipEntry("IS < 30")}

\* C9: a failure raised while analysing one channel is caught and reported as
\* a structured error entry for that unit only; every other channel is still
\* analysed and its result returned.
C9_FailureIsContained ==
    BatchOver /\ b_failed # 0 =>
        /\ b_pc = "stored"
        /\ b_result[b_fn][b_failed].present
        /\ \A fn \in FnSet(b_module) : \A ch \in Units(fn) :
              (fn # b_fn \/ ch # b_failed) /\ b_counts[ch] >= MinCount(fn) =>
                  b_result[fn][ch].present

(***************************************************************************)
(* Price lookup and the filled_mask of signal_price_context                *)
(* (database/db.py, tools/orderbook_db.py, services/phases.py,             *)
(* services/live.py).  Time is counted in minutes from the minute of the   *)
(* signal; the index is keyed by minute.                                   *)
(***************************************************************************)

\* config.py: MASK_5M .. MASK_24H, each with the offset it stands for
CTX_HORIZONS == << [mins |-> 5,    bit |-> 1],
                   [mins |-> 15,   bit |-> 2],
                   [mins |-> 60,   bit |-> 4],
                   [mins |-> 240,  bit |-> 8],
                   [mins |-> 1440, bit |-> 16] >>

MASK_ALL == 31

\* tolerance_minutes = 2, the default every caller uses
TOLERANCE == 2

\* None
NotFound == -1

\* the price a sample of minute m carries (distinct per minute, never zero)
PriceAt(m) == 50000 + m

HasBit(mask, bit) == (mask \div bit) % 2 = 1

Abs(x) == IF x < 0 THEN -x ELSE x

\* the loop of get_price_fast / get_price: radius 0, then +offset before
\* -offset, for offset = 1 .. tolerance
RECURSIVE Probe(_, _, _, _)
Probe(index, target, offset, tol) ==
    IF offset > tol THEN NotFound
    ELSE IF target + offset \in DOMAIN index THEN index[target + offset]
    ELSE IF offset > 0 /\ target - offset \in DOMAIN index
         THEN index[target - offset]
    ELSE Probe(index, target, offset + 1, tol)

get_price_fast_Wide(index, target, tol) == Probe(index, target, 0, tol + 1)

get_price_fast(index, target, tol) == Probe(index, target, 0, tol)

\* orderbook_db.get_price: the same loop over the index it is handed
get_price(index, target, tol) == Probe(index, target, 0, tol)

\* get_closest_price_sql: the nearest row of btc_price between target - tol
\* and target + tol; every row of the table is in the index by its minute
get_closest_price_sql(index, target, tol) ==
    LET near == {m \in DOMAIN index : Abs(m - target) <= tol}
    IN  IF near = {} THEN NotFound
        ELSE index[CHOOSE m \in near :
                     \A m2 \in near : Abs(m - target) <= Abs(m2 - target)]

\* "if p5:", "if p:" -- a price is used when it is neither None nor 0
Filled_Always(p) == TRUE

Filled(p) == p # NotFound /\ p # 0

\* mask = 0; if p5: mask |= MASK_5M; ... over the horizons k .. 5
RECURSIVE MaskOf(_, _)
MaskOf(after, k) ==
    IF k > Len(CTX_HORIZONS) THEN 0
    ELSE (IF Filled(after[k]) THEN CTX_HORIZONS[k].bit ELSE 0) + MaskOf(after, k + 1)

NoRow == [exists |-> FALSE, price_at |-> 0, mask |-> 0, after |-> << >>]

\* the lookup each of the two batch fills calls
LookupOf(fn, index, target, tol) ==
    IF fn = "fill_price_context" THEN get_price(index, target, tol)
    ELSE get_price_fast(index, target, tol)

\* the body shared by _fill_one_signal_context and fill_price_context
FillRow(fn) ==
    LET price_at == IF sig_price # 0 THEN sig_price
                    ELSE LookupOf(fn, price_index, 0, TOLERANCE)
        after    == [k \in 1..Len(CTX_HORIZONS) |->
                        LookupOf(fn, price_index, CTX_HORIZONS[k].mins, TOLERANCE)]
    IN  IF ~Filled(price_at) THEN NoRow
        ELSE [exists |-> TRUE, price_at |-> price_at,
              mask |-> MaskOf(after, 1), after |-> after]

\* phases._fill_one_signal_context for a signal without a context row
FillOneSignalContext ==
    /\ c_mode = "phases" /\ ~c_done /\ ~ctx.exists
    /\ ctx' = FillRow("_fill_one_signal_context")
    /\ c_done' = TRUE
    /\ UNCHANGED <<c_mode, price_index, sig_price, now, notCtx>>

\* orderbook_db.fill_price_context, one iteration of its loop
FillPriceContext ==
    /\ c_mode = "orderbook" /\ ~c_done /\ ~ctx.exists
    /\ ctx' = FillRow("fill_price_context")
    /\ c_done' = TRUE
    /\ UNCHANGED <<c_mode, price_index, sig_price, now, notCtx>>

\* db.create_live_price_context: the row is inserted with filled_mask = 0
CreateLivePriceContext ==
    /\ c_mode = "live" /\ ~c_done /\ ~ctx.exists
    /\ ctx' = IF sig_price = 0 THEN NoRow
              ELSE [exists |-> TRUE, price_at |-> sig_price, mask |-> 0,
                    after |-> [k \in 1..Len(CTX_HORIZONS) |-> NotFound]]
    /\ c_done' = TRUE
    /\ UNCHANGED <<c_mode, price_index, sig_price, now, notCtx>>

\* the instants at which the model looks at the live loops
LiveInstants ==
    {CTX_HORIZONS[k].mins + d : k \in 1..Len(CTX_HORIZONS), d \in {-2, 3}}

\* live.price_ticker_loop: time passes, and the tick of that minute stores a
\* sample unless the fetch failed
PriceTickerLoop ==
    /\ c_mode = "live"
    /\ \E t \in LiveInstants, ok \in BOOLEAN :
          /\ t > now
          /\ \A u \in LiveInstants : ~(now < u /\ u < t)
          /\ now' = t
          /\ price_index' = IF ok THEN [m \in DOMAIN price_index \cup {t} |->
                                          IF m = t THEN PriceAt(t) ELSE price_index[m]]
                            ELSE price_index
    /\ UNCHANGED <<c_mode, sig_price, ctx, c_done, notCtx>>

\* one horizon of live._fill_delayed_batch
DelayedPrice(row, k) ==
    LET h == CTX_HORIZONS[k]
        p == get_price_fast(price_index, h.mins, TOLERANCE)
        q == IF Filled(p) THEN p
             ELSE get_closest_price_sql(price_index, h.mins, TOLERANCE)
    IN  IF ~HasBit(row.mask, h.bit) /\ now >= h.mins + 1 /\ Filled(q)
        THEN q ELSE NotFound

RECURSIVE DelayedMask(_, _)
DelayedMask(row, k) ==
    IF k > Len(CTX_HORIZONS) THEN 0
    ELSE (IF Filled(DelayedPrice(row, k)) THEN CTX_HORIZONS[k].bit ELSE 0)
         + DelayedMask(row, k + 1)

\* live._fill_delayed_batch for the row of the signal
FillDelayedBatch ==
    /\ c_mode = "live" /\ ctx.exists /\ ctx.mask < MASK_ALL
    /\ ctx.price_at > 0
    /\ ctx' = [ctx EXCEPT
                 !.mask  = ctx.mask + DelayedMask(ctx, 1),
                 !.after = [k \in 1..Len(CTX_HORIZONS) |->
                              IF Filled(DelayedPrice(ctx, k))
                              THEN DelayedPrice(ctx, k) ELSE ctx.after[k]]]
    /\ UNCHANGED <<c_mode, price_index, sig_price, now, c_done, notCtx>>

\* where the samples around one target lie, as offsets from the target
SamplePatterns == { {}, {2}, {3}, {-1, 1} }

CtxInit ==
    /\ c_mode \in {"phases", "orderbook", "live"}
    /\ sig_price \in {0, PriceAt(0)}
    /\ ctx = NoRow
    /\ now = 0
    /\ c_done = FALSE
    /\ \E at \in {{}, {0}, {-2}} :
       \E pat \in [1..Len(CTX_HORIZONS) -> SamplePatterns] :
          LET ms == at \cup
                    (IF c_mode = "live" THEN {}
                     ELSE UNION {{CTX_HORIZONS[k].mins + d : d \in pat[k]} :
                                 k \in 1..Len(CTX_HORIZONS)})
          IN  /\ c_mode = "live" => \A k \in 1..Len(CTX_HORIZONS) : pat[k] = {}
              /\ price_index = [m \in ms |-> PriceAt(m)]
    /\ StreakIdle /\ ExitIdle /\ SplitIdle /\ WfIdle /\ PfIdle /\ BatchIdle /\ LkIdle /\ EntryIdle /\ MetricIdle /\ McIdle /\ ZoneIdle /\ TouchIdle /\ FillIdle /\ HistIdle

CtxNext ==
    \/ FillOneSignalContext
    \/ FillPriceContext
    \/ CreateLivePriceContext
    \/ PriceTickerLoop
    \/ FillDelayedBatch

SpecContext == CtxInit /\ [][CtxNext]_vars

\* C11: a bit of filled_mask is set only if the price for its offset was
\* found within the tolerance: the index holds a sample at most TOLERANCE
\* minutes from the target, and the row stores the price of such a sample.
C11_BitOnlyIfPriceFound ==
    ctx.exists =>
        \A k \in 1..Len(CTX_HORIZONS) :
            HasBit(ctx.mask, CTX_HORIZONS[k].bit) =>
                \E m \in DOMAIN price_index :
                    /\ Abs(m - CTX_HORIZONS[k].mins) <= TOLERANCE
                    /\ ctx.after[k] = price_index[m]

\* a row with the 5-minute bit set and the 15-minute bit left clear although
\* a sample lies three minutes from that target
C11_Witness ==
    /\ ctx.exists
    /\ HasBit(ctx.mask, 1)
    /\ ~HasBit(ctx.mask, 2)
    /\ DOMAIN price_index \cap 12..18 # {}

(***************************************************************************)
(* The lookup as a function of the stored rows (db.build_price_index +     *)
(* get_price_fast, orderbook_db.build_price_index + get_price).  Here      *)
(* timestamps are in half minutes, so that the truncation of a timestamp   *)
(* to its minute key is part of the model.                                 *)
(***************************************************************************)

\* last half minute of the modelled stretch of time
MaxLkTime == 9

\* largest tolerance handed to the lookup
MaxTol == 2

\* half minutes per minute
PER_MINUTE == 2

\* timestamp[:16] and strftime("%Y-%m-%dT%H:%M"): the minute of a timestamp
MinuteKey(t) == t \div PER_MINUTE

\* the price stored with the row of timestamp t (distinct per row)
RowPrice(t) == 100 + t

\* idx = {}; for row in rows (ORDER BY timestamp): idx[ts[:16]] = price --
\* the last row of a minute is the one the index keeps
build_price_index(rows) ==
    [k \in {MinuteKey(t) : t \in rows} |->
        RowPrice(CHOOSE t \in rows :
                    /\ MinuteKey(t) = k
                    /\ \A u \in rows : MinuteKey(u) = k => u <= t)]

BuildPriceIndex ==
    /\ lk_pc = "rows"
    /\ lk_index' = build_price_index(btc_price)
    /\ lk_pc' = "indexed"
    /\ UNCHANGED <<btc_price, lk_fn, lk_target, lk_tol, lk_result, notLk>>

\* db.get_price_fast(target, tolerance_minutes)
GetPriceFast ==
    /\ lk_pc = "indexed" /\ lk_fn = "get_price_fast"
    /\ lk_result' = get_price_fast(lk_index, MinuteKey(lk_target), lk_tol)
    /\ lk_pc' = "done"
    /\ UNCHANGED <<btc_price, lk_fn, lk_index, lk_target, lk_tol, notLk>>

\* orderbook_db.get_price(price_index, target, tolerance)
GetPrice ==
    /\ lk_pc = "indexed" /\ lk_fn = "get_price"
    /\ lk_result' = get_price(lk_index, MinuteKey(lk_target), lk_tol)
    /\ lk_pc' = "done"
    /\ UNCHANGED <<btc_price, lk_fn, lk_index, lk_target, lk_tol, notLk>>

LkInit ==
    /\ btc_price \in SUBSET (0..MaxLkTime)
    /\ lk_fn \in {"get_price_fast", "get_price"}
    /\ lk_index = << >>
    /\ lk_target \in 0..MaxLkTime
    /\ lk_tol \in 0..MaxTol
    /\ lk_result = 0
    /\ lk_pc = "rows"
    /\ StreakIdle /\ ExitIdle /\ SplitIdle /\ WfIdle /\ PfIdle /\ BatchIdle /\ CtxIdle /\ EntryIdle /\ MetricIdle /\ McIdle /\ ZoneIdle /\ TouchIdle /\ FillIdle /\ HistIdle

LkNext ==
    \/ BuildPriceIndex
    \/ GetPriceFast
    \/ GetPrice

SpecLookup == LkInit /\ [][LkNext]_vars

\* minute distance of a stored row from the target of the lookup
MinuteDist(t) == Abs(MinuteKey(t) - MinuteKey(lk_target))

RowsWithin == {t \in btc_price : MinuteDist(t) <= lk_tol}

\* C13: the lookup returns the price of a row at the smallest minute
\* distance from the target among the rows within the tolerance, and it
\* returns not-found exactly when no row lies within the tolerance.
C13_NearestWithinTolerance ==
    lk_pc = "done" =>
        /\ lk_result = NotFound <=> RowsWithin = {}
        /\ RowsWithin # {} =>
              \E t \in RowsWithin :
                  /\ lk_result = RowPrice(t)
                  /\ \A u \in RowsWithin : MinuteDist(t) <= MinuteDist(u)

\* a lookup answered at radius 2, with rows on both sides at that radius and
\* none nearer
C13_Witness ==
    /\ lk_pc = "done" /\ lk_tol = 2
    /\ lk_result # NotFound
    /\ \A t \in RowsWithin : MinuteDist(t) = 2
    /\ \E t, u \in RowsWithin : t < lk_target /\ u > lk_target

\* a lookup that finds nothing although the table has a row one minute
\* beyond the tolerance
C13_WitnessNotFound ==
    /\ lk_pc = "done"
    /\ lk_result = NotFound
    /\ \E t \in btc_price : MinuteDist(t) = lk_tol + 1

(***************************************************************************)
(* The entry price of a signal in the vectorised return computations       *)
(* (optimal_params._build_pct_matrix with the valid_entry mask of its      *)
(* callers, orderbook_h1_imbalance._compute_returns).  Time in minutes.    *)
(***************************************************************************)

\* last minute of the modelled price series
MaxEntryTs == 7

\* np.searchsorted(a, v, side="left"): 0-based insertion point
SearchSortedLeft(a, v) == Cardinality({i \in DOMAIN a : a[i] < v})

\* the horizons of H1_HORIZONS that fit the modelled stretch of time, and the
\* next one
EntryHorizons == {5, 15}

\* "np.abs(price_ts[target_idx] - target_ts) < 120", in minutes
TARGET_VALID_MIN == 2

NoEntry == [entry_idx |-> 0, entry_price |-> 0, target_idx |-> 0, included |-> FALSE,
            zero_filled |-> FALSE]

\* _build_pct_matrix for one signal, and "valid_entry = entry_prices > 0" of
\* _grid_search_channel / _evaluate_params
EntryOfBuildPctMatrix ==
    /\ e_pc = "in" /\ e_fn = "_build_pct_matrix"
    /\ LET m   == Len(price_vals)
           idx == Clip(SearchSortedLeft(price_ts, e_sig_ts), 0, m - 1)
           ep  == price_vals[idx + 1]
       IN  e_out' = [entry_idx |-> idx, entry_price |-> ep, target_idx |-> idx,
                     included |-> ep > 0, zero_filled |-> FALSE]
    /\ e_pc' = "done"
    /\ UNCHANGED <<e_fn, price_ts, price_vals, e_sig_ts, e_hz, notEntry>>

\* _compute_returns for one bin and one horizon: the return is NaN unless
\* the entry price is positive and the target sample is near the target time
ComputeReturns ==
    /\ e_pc = "in" /\ e_fn = "_compute_returns"
    /\ LET m     == Len(price_vals)
           idx   == Clip(SearchSortedLeft(price_ts, e_sig_ts), 0, m - 1)
           ep    == price_vals[idx + 1]
           tgt   == e_sig_ts + e_hz
           tidx  == Clip(SearchSortedLeft(price_ts, tgt), 0, m - 1)
           valid == Abs(price_ts[tidx + 1] - tgt) < TARGET_VALID_MIN
       IN  e_out' = [entry_idx |-> idx, entry_price |-> ep, target_idx |-> tidx,
                     included |-> ep > 0 /\ valid, zero_filled |-> FALSE]
    /\ e_pc' = "done"
    /\ UNCHANGED <<e_fn, price_ts, price_vals, e_sig_ts, e_hz, notEntry>>

\* "if n_prices < 100: return {}"
MIN_PRICES == 100

\* "exit_p = price_vals[rand_idx + 60]"
SHUFFLE_EXIT == 60

\* the positions of the series at which the price may be 0
ZeroSpots == {1, 2, 40}

\* one sampled entry of an iteration of _timestamp_shuffle: rand_idx is
\* drawn from [0, n_prices - 60); "raw_pct = np.where(valid, ..., 0)" puts 0
\* where the entry price is not positive, and net.mean() is over all
\* sampled entries
TimestampShuffleEntry ==
    /\ e_pc = "in" /\ e_fn = "_timestamp_shuffle"
    /\ \E rand_idx \in 0..(Len(price_vals) - SHUFFLE_EXIT - 1) :
          LET entry_p == price_vals[rand_idx + 1]
              valid   == entry_p > 0
          IN  e_out' = [entry_idx |-> rand_idx, entry_price |-> entry_p,
                        target_idx |-> rand_idx + SHUFFLE_EXIT,
                        included |-> TRUE, zero_filled |-> ~valid]
    /\ e_pc' = "done"
    /\ UNCHANGED <<e_fn, price_ts, price_vals, e_sig_ts, e_hz, notEntry>>

\* the sorted sequence of the members of a set of integers
RECURSIVE SortedSeq(_)
SortedSeq(S) ==
    IF S = {} THEN << >>
    ELSE LET lo == CHOOSE x \in S : \A y \in S : x <= y
         IN  <<lo>> \o SortedSeq(S \ {lo})

EntryInit ==
    /\ e_fn \in {"_build_pct_matrix", "_compute_returns", "_timestamp_shuffle"}
    /\ IF e_fn = "_timestamp_shuffle"
       THEN /\ price_ts = [i \in 1..MIN_PRICES |-> i - 1]
            /\ \E Z \in SUBSET ZeroSpots :
                  price_vals = [i \in 1..MIN_PRICES |-> IF i \in Z THEN 0 ELSE 100 + i]
            /\ e_sig_ts = 0
       ELSE /\ \E S \in SUBSET (0..MaxEntryTs) :
                  /\ S # {}
                  /\ price_ts = SortedSeq(S)
                  /\ \E z \in S \cup {-1} :
                        price_vals = [i \in 1..Cardinality(S) |->
                                        IF price_ts[i] = z THEN 0 ELSE 100 + price_ts[i]]
            /\ e_sig_ts \in 0..MaxEntryTs
    /\ e_hz \in (IF e_fn = "_compute_returns" THEN EntryHorizons ELSE {0})
    /\ e_out = NoEntry
    /\ e_pc = "in"
    /\ StreakIdle /\ ExitIdle /\ SplitIdle /\ WfIdle /\ PfIdle /\ BatchIdle /\ CtxIdle /\ LkIdle /\ MetricIdle /\ McIdle /\ ZoneIdle /\ TouchIdle /\ FillIdle /\ HistIdle

EntryNext ==
    \/ EntryOfBuildPctMatrix
    \/ ComputeReturns
    \/ TimestampShuffleEntry

SpecEntry == EntryInit /\ [][EntryNext]_vars

\* C12: a signal with no price sample within the tolerance of its timestamp
\* is excluded: whenever a signal is included in the return computation, its
\* entry price is that of a sample at most TOLERANCE minutes from it.
C12_EntryWithinTolerance ==
    (e_pc = "done" /\ e_fn # "_timestamp_shuffle" /\ e_out.included) =>
        Abs(price_ts[e_out.entry_idx + 1] - e_sig_ts) <= TOLERANCE

\* what _compute_returns does guarantee: the target price of an included bin
\* is that of a sample less than two minutes from the target time
C12_TargetIsChecked ==
    (e_pc = "done" /\ e_fn = "_compute_returns" /\ e_out.included) =>
        Abs(price_ts[e_out.target_idx + 1] - (e_sig_ts + e_hz)) < TARGET_VALID_MIN

(***************************************************************************)
(* Statistics of a return array (channel_stats.py, sim_metrics.py,         *)
(* risk_metrics.py, optimal_params.py, deep_analysis.py).  Returns are     *)
(* integers in units of 0.01 %.  A result is [cls, sign, num, den]:        *)
(* cls = "num" is the finite number sign * num / den (for Sharpe and       *)
(* Sortino: sign * sqrt(num / den), to be multiplied by the positive       *)
(* sqrt(ann_factor)); cls = "inf" is float("inf").                         *)
(***************************************************************************)

\* longest return array drawn
MaxRets == 3

\* the values a return takes
RetVals == {-2, -1, 0, 1, 99, 200}

\* 99.0, in units of 0.001
PF_SENTINEL == 99000

\* round(x, 3) keeps 0.001
PF_SCALE == 1000

\* "* 100" of _kelly
KELLY_PCT == 100

Zero == [cls |-> "num", sign |-> 0, num |-> 0, den |-> 1]

Inf == [cls |-> "inf", sign |-> 1, num |-> 0, den |-> 1]

Num(n, d) == [cls  |-> "num",
              sign |-> IF n > 0 THEN 1 ELSE IF n < 0 THEN -1 ELSE 0,
              num  |-> Abs(n), den |-> d]

RECURSIVE SumSeq(_)
SumSeq(s) == IF s = << >> THEN 0 ELSE Head(s) + SumSeq(Tail(s))

\* returns[returns > 0], returns[returns < 0]
Positives(r) == SelectSeq(r, LAMBDA x : x > 0)
Negatives(r) == SelectSeq(r, LAMBDA x : x < 0)

Squares(r) == [i \in DOMAIN r |-> r[i] * r[i]]

\* round(a / b, 0), ties to even
RoundDiv(a, b) ==
    LET q  == a \div b
        rm == a % b
    IN  IF 2 * rm < b THEN q
        ELSE IF 2 * rm > b THEN q + 1
        ELSE IF q % 2 = 0 THEN q ELSE q + 1

\* gains, abs(losses) and round(gains / losses, 3) in units of 0.001
Gains(r) == SumSeq(Positives(r))
Losses(r) == Abs(SumSeq(Negatives(r)))
RoundedRatio(r) == Num(RoundDiv(Gains(r) * PF_SCALE, Losses(r)), 1)

\* channel_stats._profit_factor
profit_factor_inf(r) ==
    IF Losses(r) = 0 THEN (IF Gains(r) > 0 THEN Inf ELSE Zero)
    ELSE RoundedRatio(r)

\* optimal_params._pf, sim_metrics._profit_factor, deep_analysis._pf
profit_factor_99(r) ==
    IF Losses(r) = 0 THEN (IF Gains(r) > 0 THEN Num(PF_SENTINEL, 1) ELSE Zero)
    ELSE RoundedRatio(r)

\* n^2 * variance: n * sum(r^2) - sum(r)^2  (np.std is the population one)
VarTimesN2(r) == Len(r) * SumSeq(Squares(r)) - SumSeq(r) * SumSeq(r)

\* _sharpe: mean / std = sign(sum) * sqrt(sum^2 / (n^2 * var))
sharpe(r) ==
    IF Len(r) < 2 \/ VarTimesN2(r) = 0 THEN Zero
    ELSE [Num(SumSeq(r), 1) EXCEPT !.num = SumSeq(r) * SumSeq(r),
                                   !.den = VarTimesN2(r)]

\* mean / sqrt(mean(downside^2)) = sign(sum) * sqrt(sum^2 * k / (n^2 * sum(d^2)))
MeanOverDownside(r) ==
    LET d == Negatives(r)
    IN  [Num(SumSeq(r), 1) EXCEPT
            !.num = SumSeq(r) * SumSeq(r) * Len(d),
            !.den = Len(r) * Len(r) * SumSeq(Squares(d))]

\* channel_stats._sortino
sortino_inf(r) ==
    IF Len(r) < 2 THEN Zero
    ELSE IF Len(Negatives(r)) = 0 THEN (IF SumSeq(r) > 0 THEN Inf ELSE Zero)
    ELSE IF SumSeq(Squares(Negatives(r))) = 0 THEN Zero
    ELSE MeanOverDownside(r)

\* risk_metrics._sortino, sim_metrics._sortino
sortino(r) ==
    IF Len(r) < 2 THEN Zero
    ELSE IF Len(Negatives(r)) = 0 THEN Zero
    ELSE IF SumSeq(Squares(Negatives(r))) = 0 THEN Zero
    ELSE MeanOverDownside(r)

\* risk_metrics._kelly, sim_metrics._kelly: (w - (1 - w) / r) * 100 with
\* w = nw / n and r = (gw / nw) / (gl / nl), unrounded
kelly(r) ==
    LET n  == Len(r)
        nw == Len(Positives(r))
        nl == Len(Negatives(r))
        gw == Gains(r)
        gl == Losses(r)
    IN  IF nw = 0 \/ nl = 0 THEN Zero
        ELSE IF gw = 0 THEN Zero
        ELSE Num(KELLY_PCT * (nw * gw * nl - (n - nw) * nw * gl), n * gw * nl)

PfFnsInf == {"channel_stats._profit_factor"}
PfFns99 == {"optimal_params._pf", "sim_metrics._profit_factor", "deep_analysis._pf"}
SharpeFns == {"channel_stats._sharpe", "risk_metrics._sharpe"}
SortinoFnsInf == {"channel_stats._sortino"}
SortinoFns == {"risk_metrics._sortino", "sim_metrics._sortino"}
KellyFns == {"risk_metrics._kelly", "sim_metrics._kelly"}

PfFns == PfFnsInf \cup PfFns99
RatioFns == SharpeFns \cup SortinoFnsInf \cup SortinoFns \cup KellyFns

\* channel_stats._profit_factor applied to the array
ProfitFactorChannelStats ==
    /\ m_pc = "in" /\ m_fn \in PfFnsInf
    /\ m_out' = profit_factor_inf(m_rets)
    /\ m_pc' = "done"
    /\ UNCHANGED <<m_fn, m_rets, notMetric>>

\* optimal_params._pf, sim_metrics._profit_factor, deep_analysis._pf applied to the array
ProfitFactor ==
    /\ m_pc = "in" /\ m_fn \in PfFns99
    /\ m_out' = profit_factor_99(m_rets)
    /\ m_pc' = "done"
    /\ UNCHANGED <<m_fn, m_rets, notMetric>>

\* channel_stats._sharpe, risk_metrics._sharpe applied to the array
Sharpe ==
    /\ m_pc = "in" /\ m_fn \in SharpeFns
    /\ m_out' = sharpe(m_rets)
    /\ m_pc' = "done"
    /\ UNCHANGED <<m_fn, m_rets, notMetric>>

\* channel_stats._sortino applied to the array
SortinoChannelStats ==
    /\ m_pc = "in" /\ m_fn \in SortinoFnsInf
    /\ m_out' = sortino_inf(m_rets)
    /\ m_pc' = "done"
    /\ UNCHANGED <<m_fn, m_rets, notMetric>>

\* risk_metrics._sortino, sim_metrics._sortino applied to the array
Sortino ==
    /\ m_pc = "in" /\ m_fn \in SortinoFns
    /\ m_out' = sortino(m_rets)
    /\ m_pc' = "done"
    /\ UNCHANGED <<m_fn, m_rets, notMetric>>

\* risk_metrics._kelly, sim_metrics._kelly applied to the array
Kelly ==
    /\ m_pc = "in" /\ m_fn \in KellyFns
    /\ m_out' = kelly(m_rets)
    /\ m_pc' = "done"
    /\ UNCHANGED <<m_fn, m_rets, notMetric>>

MetricInit ==
    /\ m_fn \in PfFns \cup RatioFns
    /\ \E n \in 0..MaxRets : m_rets \in [1..n -> RetVals]
    /\ m_out = [cls |-> "none", sign |-> 0, num |-> 0, den |-> 1]
    /\ m_pc = "in"
    /\ StreakIdle /\ ExitIdle /\ SplitIdle /\ WfIdle /\ PfIdle /\ BatchIdle /\ CtxIdle /\ LkIdle /\ EntryIdle /\ McIdle /\ ZoneIdle /\ TouchIdle /\ FillIdle /\ HistIdle

MetricNext ==
    \/ ProfitFactorChannelStats
    \/ ProfitFactor
    \/ Sharpe
    \/ SortinoChannelStats
    \/ Sortino
    \/ Kelly

SpecMetrics == MetricInit /\ [][MetricNext]_vars

\* C14: every profit-factor function returns a finite value between 0 and
\* the sentinel, whatever the return array.
C14_ProfitFactorBounded ==
    (m_pc = "done" /\ m_fn \in PfFns) =>
        /\ m_out.cls = "num"
        /\ m_out.sign >= 0
        /\ m_out.num <= PF_SENTINEL * m_out.den

\* what does hold of every profit-factor function: the result is never
\* negative and never NaN
C14_NeverNegative ==
    (m_pc = "done" /\ m_fn \in PfFns) =>
        m_out.cls \in {"num", "inf"} /\ m_out.sign >= 0 /\ m_out.den > 0

\* C15: the profit factor equals the sentinel exactly when the array has no
\* non-positive element and at least one positive element.
C15_SentinelIffOnlyGains ==
    (m_pc = "done" /\ m_fn \in PfFns) =>
        (m_out = Num(PF_SENTINEL, 1)
            <=> /\ \A i \in DOMAIN m_rets : m_rets[i] > 0
                /\ \E i \in DOMAIN m_rets : m_rets[i] > 0)

\* what the sentinel-returning functions do guarantee: an array without a
\* negative element and with a positive one yields the sentinel
C15_NoLossGivesSentinel ==
    (m_pc = "done" /\ m_fn \in PfFns99
        /\ (\A i \in DOMAIN m_rets : m_rets[i] >= 0)
        /\ (\E i \in DOMAIN m_rets : m_rets[i] > 0))
    => m_out = Num(PF_SENTINEL, 1)

\* the inputs for which the ratio has no value: an empty array, fewer than
\* two samples (Sharpe, Sortino), zero variance (Sharpe), a zero denominator
\* (Sortino: no downside deviation; Kelly: no win or no loss)
Degenerate(fn, r) ==
    \/ Len(r) = 0
    \/ fn \in SharpeFns /\ (Len(r) < 2 \/ VarTimesN2(r) = 0)
    \/ fn \in SortinoFns \cup SortinoFnsInf
          /\ (Len(r) < 2 \/ SumSeq(Squares(Negatives(r))) = 0)
    \/ fn \in KellyFns /\ (Gains(r) = 0 \/ Losses(r) = 0)

\* C16: Sharpe, Sortino and Kelly return 0 on an empty array, on fewer than
\* two samples, on zero variance and on a zero denominator, and their result
\* is always a finite number.
C16_DegenerateIsZero ==
    (m_pc = "done" /\ m_fn \in RatioFns) =>
        /\ m_out.cls = "num" /\ m_out.den # 0
        /\ Degenerate(m_fn, m_rets) => m_out = Zero

\* the same statement holds of every function but channel_stats._sortino
C16_HoldsOutsideChannelStats ==
    (m_pc = "done" /\ m_fn \in RatioFns \ SortinoFnsInf) =>
        /\ m_out.cls = "num" /\ m_out.den # 0
        /\ Degenerate(m_fn, m_rets) => m_out = Zero

(***************************************************************************)
(* The random draws of the Monte Carlo shuffles (monte_carlo.py).  A       *)
(* generator is np.random.default_rng(seed); what it returns is fixed by   *)
(* the seed and by how many numbers it has handed out before, so a draw is *)
(* recorded as [seed, pos, size].                                          *)
(***************************************************************************)

\* groups of a run
MaxMcGroups == 3

\* iterations modelled of the N_SHUFFLES of a group
MaxShuffles == 2

\* default_rng(42), default_rng(123)
SEED_DIRECTION == 42
SEED_TIMESTAMP == 123

SeedOf(fn) == IF fn = "_direction_shuffle" THEN SEED_DIRECTION ELSE SEED_TIMESTAMP

\* the group sizes and series lengths drawn, around the two minimums
McSizes == {MIN_SIGNALS - 1, MIN_SIGNALS, MIN_SIGNALS + 1}
McPriceLens == {MIN_PRICES - 1, MIN_PRICES}

\* "if n_prices < 100: return {}" of _timestamp_shuffle
TimestampShuffleNoPrices ==
    /\ mc_pc = "groups" /\ mc_fn = "_timestamp_shuffle" /\ mc_g = 1
    /\ mc_nprices < MIN_PRICES
    /\ mc_pc' = "done"
    /\ UNCHANGED <<mc_fn, mc_sizes, mc_nprices, mc_g, mc_i, mc_pos, mc_draws, notMc>>

McRuns == mc_fn = "_direction_shuffle" \/ mc_nprices >= MIN_PRICES

\* "for ch, grp in df.groupby(...): if len(grp) < MIN_SIGNALS: continue"
ShuffleNextGroup ==
    /\ mc_pc = "groups" /\ McRuns /\ mc_g <= Len(mc_sizes)
    /\ IF mc_sizes[mc_g] < MIN_SIGNALS
       THEN mc_g' = mc_g + 1 /\ UNCHANGED mc_pc
       ELSE mc_pc' = "iter" /\ UNCHANGED mc_g
    /\ mc_i' = 0
    /\ UNCHANGED <<mc_fn, mc_sizes, mc_nprices, mc_pos, mc_draws, notMc>>

\* the draw of one iteration: n numbers from the shared generator
DrawFromShared(n) ==
    /\ mc_draws' = [mc_draws EXCEPT ![mc_g] =
                       Append(@, [seed |-> SeedOf(mc_fn), pos |-> mc_pos, size |-> n])]
    /\ mc_pos' = mc_pos + n

\* "perm_signs = rng.permutation(signs)" of _direction_shuffle
DirectionShuffleIteration ==
    /\ mc_pc = "iter" /\ mc_fn = "_direction_shuffle" /\ mc_i < MaxShuffles
    /\ DrawFromShared(mc_sizes[mc_g])
    /\ mc_i' = mc_i + 1
    /\ UNCHANGED <<mc_fn, mc_sizes, mc_nprices, mc_g, mc_pc, notMc>>

\* "rand_idx = rng.integers(0, n_prices - 60, size=n_sigs)" of _timestamp_shuffle
TimestampShuffleIteration ==
    /\ mc_pc = "iter" /\ mc_fn = "_timestamp_shuffle" /\ mc_i < MaxShuffles
    /\ DrawFromShared(mc_sizes[mc_g])
    /\ mc_i' = mc_i + 1
    /\ UNCHANGED <<mc_fn, mc_sizes, mc_nprices, mc_g, mc_pc, notMc>>

\* the p-value of the group is computed and the loop moves on
ShuffleGroupDone ==
    /\ mc_pc = "iter" /\ mc_i = MaxShuffles
    /\ mc_g' = mc_g + 1
    /\ mc_pc' = "groups"
    /\ UNCHANGED <<mc_fn, mc_sizes, mc_nprices, mc_i, mc_pos, mc_draws, notMc>>

\* "return result"
ShuffleReturn ==
    /\ mc_pc = "groups" /\ McRuns /\ mc_g > Len(mc_sizes)
    /\ mc_pc' = "done"
    /\ UNCHANGED <<mc_fn, mc_sizes, mc_nprices, mc_g, mc_i, mc_pos, mc_draws, notMc>>

McInit ==
    /\ mc_fn \in {"_direction_shuffle", "_timestamp_shuffle"}
    /\ \E k \in 1..MaxMcGroups : mc_sizes \in [1..k -> McSizes]
    /\ mc_nprices \in (IF mc_fn = "_timestamp_shuffle" THEN McPriceLens ELSE {MIN_PRICES})
    /\ mc_g = 1 /\ mc_i = 0 /\ mc_pos = 0
    /\ mc_draws = [g \in 1..Len(mc_sizes) |-> << >>]
    /\ mc_pc = "groups"
    /\ StreakIdle /\ ExitIdle /\ SplitIdle /\ WfIdle /\ PfIdle /\ BatchIdle /\ CtxIdle /\ LkIdle /\ EntryIdle /\ MetricIdle /\ ZoneIdle /\ TouchIdle /\ FillIdle /\ HistIdle

McNext ==
    \/ TimestampShuffleNoPrices
    \/ ShuffleNextGroup
    \/ DirectionShuffleIteration
    \/ TimestampShuffleIteration
    \/ ShuffleGroupDone
    \/ ShuffleReturn

SpecMonteCarlo == McInit /\ [][McNext]_vars

\* the draws of group g when it is the only group of the run
DrawsAlone(g) ==
    [i \in 1..MaxShuffles |->
        [seed |-> SeedOf(mc_fn), pos |-> (i - 1) * mc_sizes[g], size |-> mc_sizes[g]]]

\* C17: the draw of an iteration depends on nothing but the seed and the
\* iteration: a group's draws are the same whichever groups were processed
\* before it, i.e. the same as when the group is processed alone.
C17_DrawsIndependentOfOrder ==
    \A g \in DOMAIN mc_draws :
        \A i \in DOMAIN mc_draws[g] : mc_draws[g][i] = DrawsAlone(g)[i]

\* numbers handed out for the groups before g that were not skipped
RECURSIVE ConsumedBefore(_)
ConsumedBefore(g) ==
    IF g <= 1 THEN 0
    ELSE ConsumedBefore(g - 1)
         + (IF mc_sizes[g - 1] < MIN_SIGNALS THEN 0 ELSE MaxShuffles * mc_sizes[g - 1])

\* what the code guarantees: with the same input, the same draws -- each
\* draw is fixed by the seed, the iteration and the sizes of the groups
\* processed before
C17_ReproducibleForSameInput ==
    \A g \in DOMAIN mc_draws :
        \A i \in DOMAIN mc_draws[g] :
            mc_draws[g][i] = [seed |-> SeedOf(mc_fn),
                              pos  |-> ConsumedBefore(g) + (i - 1) * mc_sizes[g],
                              size |-> mc_sizes[g]]

(***************************************************************************)
(* Price-level clustering (orderbook_h2_levels._build_levels,              *)
(* zone_test._cluster_zones).  Prices are in units of 0.1 and widths in    *)
(* units of 0.1 %; the prices and widths drawn keep off exact equality of  *)
(* distance and width, which binary floating point decides.                *)
(***************************************************************************)

\* most observations handed to one clustering
MaxObs == 3

\* 100.0, 100.2, 100.4, 100.8
ZonePrices == {1000, 1002, 1004, 1008}

\* zone_width_pct: 0.1 and 0.3 of H2_ZONE_WIDTHS, and 0.5
ZoneWidths == {1, 3, 5}

\* CLUSTER_PCT = 0.3
CLUSTER_PCT == 3

\* a width of w tenths of a percent, against "(d / p) * 100"
WIDTH_SCALE == 1000

\* "(sp[j] - sp[i]) / sp[i] * 100 <= zone_width_pct", i and j 0-based
JoinsCluster_Chained(sp, i, j, w) ==
    (sp[j + 1].price - sp[j].price) * WIDTH_SCALE <= w * sp[j].price

JoinsCluster(sp, i, j, w) ==
    (sp[j + 1].price - sp[i + 1].price) * WIDTH_SCALE <= w * sp[i + 1].price

\* "j = i + 1; while j < len(sp) and <joins>: j += 1", from a given j
RECURSIVE SweepEnd(_, _, _, _)
SweepEnd(sp, i, j, w) ==
    IF j < Len(sp) /\ JoinsCluster(sp, i, j, w) THEN SweepEnd(sp, i, j + 1, w) ELSE j

\* the sides that vote for "support"
SupportSides == {"bid", "support"}

\* the entry appended for sp[i:j]
LevelOf(sp, i, j) ==
    LET grp   == SubSeq(sp, i + 1, j)
        n_sup == Len(SelectSeq(grp, LAMBDA o : o.side \in SupportSides))
    IN  [sum      |-> SumSeq([k \in DOMAIN grp |-> grp[k].price]),
         strength |-> j - i,
         type     |-> IF n_sup >= Len(grp) - n_sup THEN "support" ELSE "resistance"]

\* "if len(...) == 0: return []", else "order = np.argsort(prices)": the
\* observations in ascending price, equal prices in either order
SortByPrice ==
    /\ z_pc = "in"
    /\ IF Len(z_obs) = 0
       THEN z_pc' = "done" /\ UNCHANGED z_sp
       ELSE /\ \E f \in [DOMAIN z_obs -> DOMAIN z_obs] :
                 /\ \A a, b \in DOMAIN z_obs : a # b => f[a] # f[b]
                 /\ \A a, b \in DOMAIN z_obs :
                       a < b => z_obs[f[a]].price <= z_obs[f[b]].price
                 /\ z_sp' = [k \in DOMAIN z_obs |-> z_obs[f[k]]]
            /\ z_pc' = "sweep"
    /\ UNCHANGED <<z_fn, z_obs, z_width, z_i, z_levels, notZone>>

\* one round of "while i < len(sp)" of _build_levels
BuildLevelsRound ==
    /\ z_pc = "sweep" /\ z_fn = "_build_levels" /\ z_i < Len(z_sp)
    /\ LET j == SweepEnd(z_sp, z_i, z_i + 1, z_width)
       IN  /\ z_levels' = Append(z_levels, LevelOf(z_sp, z_i, j))
           /\ z_i' = j
    /\ UNCHANGED <<z_fn, z_obs, z_width, z_sp, z_pc, notZone>>

\* one round of "while i < len(sp)" of _cluster_zones
ClusterZonesRound ==
    /\ z_pc = "sweep" /\ z_fn = "_cluster_zones" /\ z_i < Len(z_sp)
    /\ LET j == SweepEnd(z_sp, z_i, z_i + 1, z_width)
       IN  /\ z_levels' = Append(z_levels, LevelOf(z_sp, z_i, j))
           /\ z_i' = j
    /\ UNCHANGED <<z_fn, z_obs, z_width, z_sp, z_pc, notZone>>

\* "return levels" / "return clusters"
ZonesReturn ==
    /\ z_pc = "sweep" /\ z_i >= Len(z_sp)
    /\ z_pc' = "done"
    /\ UNCHANGED <<z_fn, z_obs, z_width, z_sp, z_i, z_levels, notZone>>

ZoneInit ==
    /\ z_fn \in {"_build_levels", "_cluster_zones"}
    /\ \E n \in 0..MaxObs :
          z_obs \in [1..n -> [price : ZonePrices,
                              side  : IF z_fn = "_build_levels"
                                      THEN {"bid", "ask"}
                                      ELSE {"support", "resistance"}]]
    /\ z_width \in (IF z_fn = "_build_levels" THEN ZoneWidths ELSE {CLUSTER_PCT})
    /\ z_sp = << >> /\ z_i = 0 /\ z_levels = << >>
    /\ z_pc = "in"
    /\ StreakIdle /\ ExitIdle /\ SplitIdle /\ WfIdle /\ PfIdle /\ BatchIdle /\ CtxIdle /\ LkIdle /\ EntryIdle /\ MetricIdle /\ McIdle /\ TouchIdle /\ FillIdle /\ HistIdle

ZoneNext ==
    \/ SortByPrice
    \/ BuildLevelsRound
    \/ ClusterZonesRound
    \/ ZonesReturn

SpecZones == ZoneInit /\ [][ZoneNext]_vars

\* 0-based index in z_sp of the first member of cluster c
RECURSIVE ClusterStart(_)
ClusterStart(c) == IF c <= 1 THEN 0 ELSE ClusterStart(c - 1) + z_levels[c - 1].strength

\* whether the observation at 0-based index k lies within the width of the
\* observation at 0-based index i
WithinWidthOf(k, i) ==
    (z_sp[k + 1].price - z_sp[i + 1].price) * WIDTH_SCALE <= z_width * z_sp[i + 1].price

\* C18: in the price-sorted sweep an observation joins the current cluster
\* exactly when it lies within the width of the cluster's first, lowest
\* priced member: every member of a cluster is within the width of its
\* first member, the observation after a cluster is not, the clusters cover
\* the observations, and strength is the member count.  Prices 100 and
\* 100.2 give one zone of strength 2 at width 0.5 and two zones of strength
\* 1 at width 0.1.
C18_JoinsIffWithinWidthOfFirst ==
    z_pc = "done" =>
        /\ ClusterStart(Len(z_levels) + 1) = Len(z_sp)
        /\ \A c \in DOMAIN z_levels :
              LET i == ClusterStart(c)
                  j == ClusterStart(c + 1)
              IN  /\ z_levels[c].strength >= 1
                  /\ \A k \in i..(j - 1) :
                        /\ WithinWidthOf(k, i)
                        /\ z_sp[i + 1].price <= z_sp[k + 1].price
                  /\ j < Len(z_sp) => ~WithinWidthOf(j, i)
        /\ ({z_obs[k].price : k \in DOMAIN z_obs} = {1000, 1002} /\ Len(z_obs) = 2) =>
              /\ z_width = 5 => Len(z_levels) = 1 /\ z_levels[1].strength = 2
              /\ z_width = 1 => /\ Len(z_levels) = 2
                                /\ z_levels[1].strength = 1
                                /\ z_levels[2].strength = 1

\* 100, 100.4 and 100.8 at width 0.5: the third is within the width of the
\* second but not of the first, and starts a zone of its own
C18_Witness ==
    /\ z_pc = "done" /\ z_width = 5
    /\ {z_obs[k].price : k \in DOMAIN z_obs} = {1000, 1004, 1008}
    /\ Len(z_levels) = 2
    /\ z_levels[1].strength = 2 /\ z_levels[2].strength = 1

\* the example of the specification at width 0.5 ...
C18_WitnessMerged ==
    /\ z_pc = "done" /\ z_width = 5 /\ Len(z_obs) = 2
    /\ {z_obs[k].price : k \in DOMAIN z_obs} = {1000, 1002}
    /\ Len(z_levels) = 1 /\ z_levels[1].strength = 2

\* ... and at width 0.1
C18_WitnessApart ==
    /\ z_pc = "done" /\ z_width = 1 /\ Len(z_obs) = 2
    /\ {z_obs[k].price : k \in DOMAIN z_obs} = {1000, 1002}
    /\ Len(z_levels) = 2

(***************************************************************************)
(* Positions beyond the end of the price series (SpecExit)                 *)
(***************************************************************************)

\* the columns of the row whose price index entry_idx + offset is inside the
\* series
InSeries == {c \in 1..MaxHold : EntryIdx(prices, entry_pos) + (c - 1) < Len(prices)}

\* the first hits as the code computes them over the whole row, 0-based
TpFirst == FirstTrue([c \in 1..Len(directed) |-> GeUnits(directed[c], tp)])
SlFirst == FirstTrue([c \in 1..Len(directed) |-> LeUnits(directed[c], -sl)])

\* C19: a position beyond the end of the price series takes no part in the
\* TP and SL comparisons: it is NaN in the matrix, neither first-hit index
\* ever points at it, and a take-profit or stop-loss outcome always has a
\* hit at a position inside the series.
C19_OverflowNeverHits ==
    x_pc = "resolved" =>
        /\ \A c \in (1..MaxHold) \ InSeries : IsNaN(directed[c])
        /\ TpFirst < MaxHold => (TpFirst + 1) \in InSeries
        /\ SlFirst < MaxHold => (SlFirst + 1) \in InSeries
        /\ x_ret = Whole(tp - FEE_UNITS) =>
              \E c \in InSeries : directed[c].num >= tp * directed[c].den
        /\ x_ret = Whole(-sl - FEE_UNITS) =>
              \E c \in InSeries : directed[c].num <= (-sl) * directed[c].den

\* a path that runs off the end of the series without reaching either
\* boundary: it is resolved by its last available value
C19_Witness ==
    /\ x_pc = "resolved"
    /\ InSeries # 1..MaxHold
    /\ Cardinality(InSeries) >= 2
    /\ TpFirst = MaxHold /\ SlFirst = MaxHold
    /\ x_ret # Whole(tp - FEE_UNITS) /\ x_ret # Whole(-sl - FEE_UNITS)

(***************************************************************************)
(* Entries with a non-positive entry price (SpecEntry)                     *)
(***************************************************************************)

\* C20: a signal or sampled entry whose entry price is <= 0 is left out of
\* the return computation and of the statistics; it is never included with
\* a return of zero.
C20_NonPositiveEntryExcluded ==
    (e_pc = "done" /\ e_out.entry_price <= 0) =>
        ~e_out.included /\ ~e_out.zero_filled

\* the grid search, the out-of-sample evaluation and the order-book returns
\* do leave such an entry out
C20_HoldsOutsideTimestampShuffle ==
    (e_pc = "done" /\ e_fn # "_timestamp_shuffle" /\ e_out.entry_price <= 0) =>
        ~e_out.included /\ ~e_out.zero_filled

(***************************************************************************)
(* The selected grid point (SpecWalkForward)                               *)
(***************************************************************************)

\* the grid points that meet the trade-count floor of the analysis
Candidates == {g \in 1..Len(is_stats) : is_stats[g].trades >= Floor(wf_kind)}

\* C21: in the grid searches of optimal_params, deep_analysis and the
\* order-book walk-forward, whenever at least one grid point meets the
\* minimum trade-count floor exactly one grid point is selected, it meets
\* the floor, and its in-sample Sharpe is >= that of every other grid point
\* that meets the floor; when none meets it nothing is selected.
C21_BestAmongCandidates ==
    (wf_kind # "zone_test" /\ wf_pc \in {"searched", "skipped", "done"}) =>
        /\ Candidates # {} =>
              /\ wf_pc # "skipped"
              /\ best_params \in Candidates
              /\ \A g \in Candidates :
                    is_stats[best_params].sharpe >= is_stats[g].sharpe
        /\ Candidates = {} => wf_pc = "skipped" /\ best_params = 0

\* a point is selected although a point below the floor has a higher
\* in-sample Sharpe
C21_Witness ==
    /\ wf_kind # "zone_test" /\ wf_pc = "searched"
    /\ best_params \in Candidates
    /\ \E g \in 1..Len(is_stats) :
          /\ g \notin Candidates
          /\ is_stats[g].sharpe > is_stats[best_params].sharpe

(***************************************************************************)
(* Entries at a zone (orderbook_h2_levels._detect_touches and              *)
(* _detect_breakout_returns, zone_test._find_entries), for one zone of the *)
(* loop: every zone is handled on its own, with its own last_t.  Time is   *)
(* in minutes, one price sample per minute; the zone price is 10000 and    *)
(* the prices drawn keep off the band edges.                               *)
(***************************************************************************)

\* number of samples of the price series
MaxTouchLen == 67

\* zp
ZONE_PRICE == 10000

\* H2_ENTRY_SEP_SEC / ENTRY_SEP_SEC = 3600 s
ENTRY_SEP == 60

\* H2_BREAKOUT_PCT = 0.3, in units of 0.1 %
BREAKOUT_PCT == 3

\* "min(bi + 60, len(wp))": the lookahead after a breakout sample
LOOKAHEAD == 60

\* "if i1 - i0 < 10: continue"
MIN_WINDOW == 10

\* zp * (1 - pct / 100) and zp * (1 + pct / 100), pct in units of 0.1 %
BandLo(pct) == ZONE_PRICE - (ZONE_PRICE * pct) \div 1000
BandHi(pct) == ZONE_PRICE + (ZONE_PRICE * pct) \div 1000

\* "(wp >= lo) & (wp <= hi)"
InZone(p, w) == p >= BandLo(w) /\ p <= BandHi(w)

\* "broke = wp < break_lo" for a support, "wp > break_hi" for a resistance
Broke(p, type) ==
    IF type = "support" THEN p < BandLo(BREAKOUT_PCT) ELSE p > BandHi(BREAKOUT_PCT)

\* np.searchsorted(a, v, side="right"): 0-based insertion point
SearchSortedRight(a, v) == Cardinality({i \in DOMAIN a : a[i] <= v})

\* "t0 = lv['t_last']" / "t0 = z['t_confirm']": the zone is active from its
\* last contributing observation
ActiveFrom_First(lv) == lv.t_first

ActiveFrom(lv) == lv.t_last

\* i0 and i1 of the zone, 0-based
WinLo == SearchSortedLeft(t_ts, ActiveFrom(t_level))
WinHi == SearchSortedRight(t_ts, ActiveFrom(t_level) + t_lifetime)

\* "if t - last_t >= H2_ENTRY_SEP_SEC"
Keeps_Later(t, last_t) == t - last_t > ENTRY_SEP

Keeps(t, last_t) == t - last_t >= ENTRY_SEP

\* "for idx in np.where(in_zone)[0]: ..." from the 0-based sample k on
RECURSIVE TouchScan(_, _, _, _, _)
TouchScan(k, i1, last_t, touch, acc) ==
    IF k >= i1 THEN acc
    ELSE IF InZone(t_vals[k + 1], t_width) /\ Keeps(t_ts[k + 1], last_t)
         THEN TouchScan(k + 1, i1, t_ts[k + 1], touch + 1,
                        Append(acc, [ts |-> t_ts[k + 1], price |-> t_vals[k + 1],
                                     touch |-> touch + 1, bi |-> -1]))
         ELSE TouchScan(k + 1, i1, last_t, touch, acc)

\* the body of the loop for one zone; an empty window, or one without a
\* sample in the band, gives no entry
TouchesOf ==
    IF t_level.strength < t_min_str \/ WinHi <= WinLo THEN << >>
    ELSE TouchScan(WinLo, WinHi, -ENTRY_SEP, 0, << >>)

\* "after = slice(bi + 1, min(bi + 60, len(wp)))", as 0-based sample indices
\* [from, to) of the series
AfterEnd_Unbounded(bi, i0, i1) == i1

AfterEnd(bi, i0, i1) ==
    IF (bi - i0) + LOOKAHEAD < i1 - i0 THEN bi + LOOKAHEAD ELSE i1

\* np.argmax(returned): the first sample of [from, to) in the band, or -1
RECURSIVE FirstReturn(_, _)
FirstReturn(from, to) ==
    IF from >= to THEN -1
    ELSE IF InZone(t_vals[from + 1], t_width) THEN from
    ELSE FirstReturn(from + 1, to)

\* "for bi in break_idx: ..." from the 0-based sample bi on
RECURSIVE BreakScan(_, _, _, _, _)
BreakScan(bi, i0, i1, last_t, acc) ==
    IF bi >= i1 THEN acc
    ELSE IF ~Broke(t_vals[bi + 1], t_level.type) THEN BreakScan(bi + 1, i0, i1, last_t, acc)
    ELSE LET r == FirstReturn(bi + 1, AfterEnd(bi, i0, i1))
         IN  IF r = -1 \/ t_ts[r + 1] - last_t < ENTRY_SEP
             THEN BreakScan(bi + 1, i0, i1, last_t, acc)
             ELSE BreakScan(bi + 1, i0, i1, t_ts[r + 1],
                            Append(acc, [ts |-> t_ts[r + 1], price |-> t_vals[r + 1],
                                         touch |-> 0, bi |-> bi]))

BreakoutReturnsOf ==
    IF t_level.strength < t_min_str \/ WinHi - WinLo < MIN_WINDOW THEN << >>
    ELSE BreakScan(WinLo, WinLo, WinHi, -ENTRY_SEP, << >>)

\* orderbook_h2_levels._detect_touches
DetectTouches ==
    /\ t_pc = "in" /\ t_fn = "_detect_touches"
    /\ t_entries' = TouchesOf
    /\ t_pc' = "done"
    /\ UNCHANGED <<t_fn, t_level, t_ts, t_vals, t_width, t_lifetime, t_min_str, notTouch>>

\* zone_test._find_entries (no min_strength there)
FindEntries ==
    /\ t_pc = "in" /\ t_fn = "_find_entries"
    /\ t_entries' = TouchesOf
    /\ t_pc' = "done"
    /\ UNCHANGED <<t_fn, t_level, t_ts, t_vals, t_width, t_lifetime, t_min_str, notTouch>>

\* orderbook_h2_levels._detect_breakout_returns
DetectBreakoutReturns ==
    /\ t_pc = "in" /\ t_fn = "_detect_breakout_returns"
    /\ t_entries' = BreakoutReturnsOf
    /\ t_pc' = "done"
    /\ UNCHANGED <<t_fn, t_level, t_ts, t_vals, t_width, t_lifetime, t_min_str, notTouch>>

\* a price between the band and the breakout band, one in the band, one
\* beyond the breakout band on either side
NEUTRAL_PRICE == ZONE_PRICE - 25
TouchPrices == {10000, 9960, 10040}

\* the samples at which the price is not the neutral one
SpecialIdx == {1, 3, 4, 62, 63, 64, 65, 66}

TouchInit ==
    /\ t_fn \in {"_detect_touches", "_find_entries", "_detect_breakout_returns"}
    /\ \E tl \in {0, 3}, ty \in {"support", "resistance"} :
          t_level = [type |-> ty, strength |-> 1, t_first |-> 0, t_last |-> tl]
    /\ t_ts = [i \in 1..MaxTouchLen |-> i - 1]
    /\ \E S \in SUBSET SpecialIdx :
          /\ Cardinality(S) \in 1..3
          /\ \E f \in [S -> TouchPrices] :
                t_vals = [i \in 1..MaxTouchLen |->
                             IF (i - 1) \in S THEN f[i - 1] ELSE NEUTRAL_PRICE]
    /\ t_width \in {1, 2}
    /\ t_lifetime \in {61, 100}
    /\ t_min_str \in (IF t_fn = "_find_entries" THEN {1} ELSE {1, 2})
    /\ t_entries = << >>
    /\ t_pc = "in"
    /\ StreakIdle /\ ExitIdle /\ SplitIdle /\ WfIdle /\ PfIdle /\ BatchIdle /\ CtxIdle /\ LkIdle /\ EntryIdle /\ MetricIdle /\ McIdle /\ ZoneIdle /\ FillIdle /\ HistIdle

TouchNext ==
    \/ DetectTouches
    \/ FindEntries
    \/ DetectBreakoutReturns

SpecTouch == TouchInit /\ [][TouchNext]_vars

EntryTimes == {t_entries[e].ts : e \in DOMAIN t_entries}

\* C22: every entry of a zone has its timestamp between t_last, the time of
\* the zone's last contributing observation, and t_last + lifetime.
C22_EntriesInActiveWindow ==
    \A e \in DOMAIN t_entries :
        /\ t_entries[e].ts >= t_level.t_last
        /\ t_entries[e].ts <= t_level.t_last + t_lifetime

\* entries were produced for a zone whose band the price also visited
\* before the last contributing observation and after the lifetime
C22_Witness ==
    /\ t_pc = "done" /\ t_entries # << >>
    /\ t_level.t_first < t_level.t_last
    /\ \E k \in DOMAIN t_ts :
          t_ts[k] < t_level.t_last /\ InZone(t_vals[k], t_width)
    /\ \E k \in DOMAIN t_ts :
          t_ts[k] > t_level.t_last + t_lifetime /\ InZone(t_vals[k], t_width)

\* the in-band samples of the active window, as 1-based positions
InBandSamples ==
    {k \in DOMAIN t_ts :
        /\ t_ts[k] >= t_level.t_last /\ t_ts[k] <= t_level.t_last + t_lifetime
        /\ InZone(t_vals[k], t_width)}

\* C23: two kept touches of a zone are at least the re-entry interval apart,
\* and an in-band sample of the window is dropped only if it comes less than
\* that interval after the previously kept touch.
C23_TouchSeparation ==
    (t_pc = "done" /\ t_fn \in {"_detect_touches", "_find_entries"}
        /\ t_level.strength >= t_min_str) =>
        /\ \A a, b \in EntryTimes : a < b => b - a >= ENTRY_SEP
        /\ \A k \in InBandSamples :
              t_ts[k] \notin EntryTimes =>
                  \E a \in EntryTimes :
                      /\ a < t_ts[k]
                      /\ \A b \in EntryTimes : b < t_ts[k] => b <= a
                      /\ t_ts[k] - a < ENTRY_SEP

\* one touch kept, one dropped 59 minutes later, and one kept exactly 60
\* minutes after the first
C23_Witness ==
    /\ t_pc = "done" /\ t_fn = "_detect_touches"
    /\ Len(t_entries) = 2
    /\ t_entries[2].ts - t_entries[1].ts = ENTRY_SEP
    /\ \E k \in InBandSamples : t_ts[k] = t_entries[1].ts + ENTRY_SEP - 1

\* C24: a breakout-return entry is recorded only at a sample where the price
\* is back inside the zone band and which follows, by fewer than 60 samples,
\* a sample of the active window at which the price was beyond the breakout
\* band on the zone's breakout side.
C24_ReturnFollowsBreakout ==
    (t_pc = "done" /\ t_fn = "_detect_breakout_returns") =>
        \A e \in DOMAIN t_entries :
            \E r, b \in DOMAIN t_ts :
                /\ t_ts[r] = t_entries[e].ts
                /\ InZone(t_vals[r], t_width)
                /\ b < r /\ r - b < LOOKAHEAD
                /\ t_ts[b] >= t_level.t_last
                /\ t_ts[b] <= t_level.t_last + t_lifetime
                /\ Broke(t_vals[b], t_level.type)

\* a return 59 samples after the breakout is recorded ...
C24_Witness ==
    /\ t_pc = "done" /\ t_fn = "_detect_breakout_returns"
    /\ Len(t_entries) = 1
    /\ \E r \in DOMAIN t_ts :
          t_ts[r] = t_entries[1].ts /\ r - (t_entries[1].bi + 1) = LOOKAHEAD - 1

\* ... and one 60 samples after it is not
C24_WitnessTooLate ==
    /\ t_pc = "done" /\ t_fn = "_detect_breakout_returns"
    /\ t_entries = << >> /\ t_level.strength >= t_min_str
    /\ \E b, r \in DOMAIN t_ts :
          /\ t_ts[b] >= t_level.t_last /\ Broke(t_vals[b], t_level.type)
          /\ r - b = LOOKAHEAD /\ InZone(t_vals[r], t_width)
          /\ t_ts[r] <= t_level.t_last + t_lifetime

-----------------------------------------------------------------------------
(* C25: the capital of the streak-filtered portfolio simulation *)

\* a * b
FracTimes(a, b) == Frac(a.num * b.num, a.den * b.den)

\* capital + capital x size/100 x net/100, from the capital before the trade
Compounded(cap, size, net) == FracTimes(cap, Frac(10000 + size * net, 10000))

\* C25: in sim_engine.simulate the capital changes only when a signal is
\* accepted, and then by exactly capital x position_size_pct/100 x
\* net_return/100 computed from the capital before the trade; a skipped
\* signal leaves capital, trade log and equity curve unchanged.
C25_CapitalOnlyOnAcceptance ==
    [][ pf_mode = "sim_engine" =>
          IF pf_last'.accepted
          THEN /\ \E net \in NetReturns : capital' = Compounded(capital, size_pct, net)
               /\ Len(trade_log') = Len(trade_log) + 1
               /\ Len(equity_curve') = Len(equity_curve) + 1
          ELSE UNCHANGED <<capital, trade_log, equity_curve>> ]_vars

\* a third trade, taken after a win and a loss have moved the capital, and a
\* skipped signal in between
C25_Witness ==
    /\ pf_mode = "sim_engine" /\ Len(trade_log) = 2 /\ pf_n = 3
    /\ capital = [num |-> 9999, den |-> 1]

-----------------------------------------------------------------------------
(* C26: the streak filter against the sliding-window rule *)

\* the outcomes of the channel that precede the last one processed
Preceding == SubSeq(history, 1, Len(history) - 1)

\* the n outcomes immediately preceding the last one are all wins
WindowAllWins(n) ==
    /\ Len(Preceding) >= n
    /\ \A k \in (Len(Preceding) - n + 1)..Len(Preceding) : Preceding[k] = 1

\* C26: for m_losses = 1 the streak filter is the sliding-window rule: an
\* outcome of a channel is a realized trade iff the n_wins outcomes of that
\* channel immediately preceding it, the in-sample ones before the boundary
\* included, are all wins.
C26_SlidingWindow ==
    (Stepped /\ Recording /\ m_losses = 1) => (traded <=> WindowAllWins(n_wins))

\* it is, wherever the state is carried across the boundary (sim_engine), and
\* within each single call of _streak_filter
C26_HoldsWithCarriedState ==
    (Stepped /\ Recording /\ m_losses = 1
        /\ (engine = "sim_engine" \/ phase = "is")) =>
        (traded <=> WindowAllWins(n_wins))

-----------------------------------------------------------------------------
(* C27: the two sides of the split after the join *)

InFrame(df, r) == \E i \in 1..Len(df) : df[i].id = r.id

\* the signals that have a price-context record
Eligible == {df_signals[i] : i \in {k \in 1..Len(df_signals) : HasContext(df_signals[k])}}

\* C27: a signal and its price-context record are on the same side of the
\* IS/OOS split, so that after the join every signal with a context is in
\* exactly one of the in-sample and out-of-sample sets.
C27_SameSideAfterJoin ==
    parts["merged"].done =>
        \A r \in Eligible :
            /\ InFrame(parts["signals"].is, r) <=> InFrame(parts["contexts"].is, r)
            /\ InFrame(parts["merged"].is, r) # InFrame(parts["merged"].oos, r)

\* it holds when every signal has its context: both frames then have the same
\* timestamps and the same split point
C27_HoldsWhenEverySignalHasContext ==
    (parts["merged"].done /\ Len(df_context) = Len(df_signals)) =>
        \A r \in Eligible :
            /\ InFrame(parts["signals"].is, r) <=> InFrame(parts["contexts"].is, r)
            /\ InFrame(parts["merged"].is, r) # InFrame(parts["merged"].oos, r)

\* and a signal is never on both sides
C27_NeverInBoth ==
    parts["merged"].done =>
        \A r \in Eligible : ~(InFrame(parts["merged"].is, r) /\ InFrame(parts["merged"].oos, r))

-----------------------------------------------------------------------------
(* C28: the verdict when the out-of-sample side has too few trades *)

\* the out-of-sample side of grid point g has too few trades for its
\* statistics to be computed
TooFewOOS(g) ==
    oos_stats[g].trades < (IF wf_kind = "orderbook_h1" THEN MIN_ACTIVE ELSE MIN_OOS)

\* C28: when the out-of-sample set yields too few trades for out-of-sample
\* statistics to be computed, the walk-forward verdict reports
\* overfitted = null, never true or false.
C28_NullWhenTooFewOOS ==
    \A k \in 1..Len(wf_top) :
        TooFewOOS(wf_top[k].params) => wf_top[k].overfitted = "null"

\* zone_test alone reports null then
C28_HoldsInZoneTest ==
    wf_kind = "zone_test" =>
        \A k \in 1..Len(wf_top) :
            TooFewOOS(wf_top[k].params) => wf_top[k].overfitted = "null"

-----------------------------------------------------------------------------
(***************************************************************************)
(* The delayed-fill loop over the whole signal_price_context table         *)
(* (services/live.py).  Time is in seconds.  A row carries, as "found",    *)
(* the horizons at which "get_price_fast(t) or get_closest_price_sql(t)"   *)
(* returns a price for t = signal_timestamp + horizon: the samples of      *)
(* those minutes are in btc_price, and a sample is never removed.          *)
(***************************************************************************)

\* live signals stored while the loop runs
MaxArrivals == 1

\* "ORDER BY signal_timestamp DESC LIMIT 200"
BATCH_LIMIT == 200

SECONDS == 60

HorizonIdx == 1..Len(CTX_HORIZONS)

\* "now >= sig_t + timedelta(minutes=mins + 1)"
Elapsed(row, k) == f_now >= row.signal_timestamp + (CTX_HORIZONS[k].mins + 1) * SECONDS

\* "WHERE filled_mask < 31"
Unfilled == {i \in 1..Len(f_rows) : f_rows[i].filled_mask < MASK_ALL}

\* the rows of u without its n oldest
RECURSIVE DropOldest(_, _)
DropOldest(u, n) ==
    IF n <= 0 THEN u
    ELSE DropOldest(u \ {CHOOSE i \in u : \A j \in u : i <= j}, n - 1)

\* "ORDER BY signal_timestamp DESC LIMIT 200": the rows the SELECT returns,
\* the BATCH_LIMIT latest of the unfilled rows
BatchRows == DropOldest(Unfilled, Cardinality(Unfilled) - BATCH_LIMIT)

\* the horizons one pass over a row fills
FillsNow(row) ==
    IF ~(row.price_at_signal > 0) THEN {}
    ELSE {k \in HorizonIdx :
            /\ ~HasBit(row.filled_mask, CTX_HORIZONS[k].bit)
            /\ Elapsed(row, k)
            /\ k \in row.found}

RECURSIVE BitsOf(_)
BitsOf(S) ==
    IF S = {} THEN 0
    ELSE LET k == CHOOSE x \in S : TRUE
         IN  CTX_HORIZONS[k].bit + BitsOf(S \ {k})

\* live.fill_delayed_prices_loop: one round of "_fill_delayed_batch()"
FillDelayedPricesLoop ==
    /\ f_rows # << >>
    /\ \E rows \in {BatchRows} :
           f_rows' = [i \in 1..Len(f_rows) |->
                        IF i \in rows
                        THEN [f_rows[i] EXCEPT
                                !.filled_mask = f_rows[i].filled_mask + BitsOf(FillsNow(f_rows[i]))]
                        ELSE f_rows[i]]
    /\ UNCHANGED <<f_now, f_arrived, notFill>>

\* the longest horizon plus the five minutes of a round
DAY == (CTX_HORIZONS[Len(CTX_HORIZONS)].mins + 5) * SECONDS

\* the instants at which the model looks at the loop: five minutes after each
\* horizon of the oldest row, when the horizon has elapsed for the burst too,
\* and a day after the last of them, when it has for every later row
FillInstants ==
    {(CTX_HORIZONS[k].mins + 5) * SECONDS : k \in HorizonIdx} \cup {DAY + DAY}

\* "await asyncio.sleep(300)": time passes
FillSleep ==
    /\ f_rows # << >>
    /\ \E t \in FillInstants :
          /\ t > f_now
          /\ \A u \in FillInstants : ~(f_now < u /\ u < t)
          /\ f_now' = t
    /\ UNCHANGED <<f_rows, f_arrived, notFill>>

\* live.handle_live_message -> db.create_live_price_context: a new row, with
\* filled_mask = 0, for a signal received now
CreateLiveRow ==
    /\ f_rows # << >> /\ f_arrived < MaxArrivals
    /\ f_now > f_rows[Len(f_rows)].signal_timestamp
    \* signals are followed for a day: every horizon of every row elapses
    /\ f_now <= DAY
    /\ f_rows' = Append(f_rows, [signal_timestamp |-> f_now, price_at_signal |-> PriceAt(0),
                                 filled_mask |-> 0, found |-> HorizonIdx])
    /\ f_arrived' = f_arrived + 1
    /\ UNCHANGED <<f_now, notFill>>

\* a table of live rows: one signal at second 0 and a burst of nb signals, one
\* per second, after it; every row of the burst has the same horizons found
FillInit ==
    /\ \E nb \in {BATCH_LIMIT - 1, BATCH_LIMIT},
          f0 \in {HorizonIdx, {1}},
          fb \in {HorizonIdx, HorizonIdx \ {1}} :
          f_rows = [i \in 1..(nb + 1) |->
                       [signal_timestamp |-> i - 1, price_at_signal |-> PriceAt(0),
                        filled_mask |-> 0,
                        found |-> IF i = 1 THEN f0 ELSE fb]]
    /\ f_now = 0 /\ f_arrived = 0
    /\ StreakIdle /\ ExitIdle /\ SplitIdle /\ WfIdle /\ PfIdle /\ BatchIdle /\ CtxIdle /\ LkIdle /\ EntryIdle /\ MetricIdle /\ McIdle /\ ZoneIdle /\ TouchIdle /\ HistIdle

FillNext ==
    \/ FillDelayedPricesLoop
    \/ FillSleep
    \/ CreateLiveRow

\* the loop is "while True: try: _fill_delayed_batch() except ...: log; await
\* asyncio.sleep(300)": every round comes, whatever the previous one did, and
\* time passes
SpecDelayedFill ==
    FillInit /\ [][FillNext]_vars /\ WF_vars(FillDelayedPricesLoop) /\ WF_vars(FillSleep)

\* row i has horizon k unset, elapsed, and its after-price found
Fillable(i, k) ==
    /\ i <= Len(f_rows)
    /\ ~HasBit(f_rows[i].filled_mask, CTX_HORIZONS[k].bit)
    /\ Elapsed(f_rows[i], k)
    /\ k \in f_rows[i].found

BitSet(i, k) == i <= Len(f_rows) /\ HasBit(f_rows[i].filled_mask, CTX_HORIZONS[k].bit)

\* the row the property is stated for: the oldest row of the table
Watched == {1}

\* C29: every price-context row with an unset horizon bit, whose horizon
\* (plus one minute) has elapsed and whose after-price is available within
\* tolerance, eventually has that bit set by the delayed-fill loop.
C29_FillableIsEventuallyFilled ==
    \A i \in Watched : \A k \in HorizonIdx :
        Fillable(i, k) ~> BitSet(i, k)

\* it is, as long as the row is among the BATCH_LIMIT latest unfilled rows
C29_HoldsWithinBatch ==
    \A i \in Watched : \A k \in HorizonIdx :
        Fillable(i, k) ~> (BitSet(i, k) \/ i \notin BatchRows)

\* the oldest row starved: fillable, behind BATCH_LIMIT later rows that can
\* never be completed because one of their after-prices is missing
C29_Starved ==
    /\ Len(f_rows) = BATCH_LIMIT + 1 /\ f_arrived = 0
    /\ Fillable(1, 1) /\ 1 \notin BatchRows
    /\ \A i \in 2..Len(f_rows) : f_rows[i].found # HorizonIdx
    /\ \A u \in FillInstants : u <= f_now

\* and from there on its bit is never set
C29_StarvedForever == [](C29_Starved => [](~BitSet(1, 1)))

-----------------------------------------------------------------------------
(***************************************************************************)
(* services/binance.fetch_btc_price_history.  Time is in minutes (one      *)
(* kline, 60000 ms) counted from start.                                    *)
(***************************************************************************)

\* the latest end, in minutes after start
MaxEnd == 2500

\* "limit": 1000 klines per request, and "current_ms += 1000 * 60000"
CHUNK == 1000

\* "if consecutive_errors >= 5"
MAX_ERRORS == 5

\* where the last kline of a non-empty response lies, in minutes after the
\* requested startTime: a response of 1, 500 or 1000 klines from startTime on
LastOffsets == {0, 499, CHUNK - 1}

\* A plausible slip: the chunk is not skipped.
AfterError_NoSkip(cur, errs) == cur

\* "if consecutive_errors >= 5: current_ms += 1000 * 60000", errs being the
\* counter after "consecutive_errors += 1"
AfterError(cur, errs) == IF errs >= MAX_ERRORS THEN cur + CHUNK ELSE cur

\* one iteration of the loop whose request succeeds with a non-empty list
FetchChunk ==
    /\ h_pc = "loop" /\ h_current < h_end
    /\ \E off \in LastOffsets :
          \* "all_klines.extend(data); current_ms = data[-1][0] + 60000"
          /\ h_klines' = h_klines + off + 1
          /\ h_current' = h_current + off + 1
    /\ h_errors' = 0
    /\ h_since' = 0
    /\ UNCHANGED <<h_end, h_skipped, h_pc, notHist>>

\* one iteration whose request succeeds with an empty list: "if not data: break"
FetchEmpty ==
    /\ h_pc = "loop" /\ h_current < h_end
    /\ h_pc' = "returned"
    /\ UNCHANGED <<h_current, h_end, h_errors, h_klines, h_since, h_skipped, notHist>>

\* one iteration whose request raises (transport error, HTTP status, bad body)
FetchError ==
    /\ h_pc = "loop" /\ h_current < h_end
    /\ h_current' = AfterError(h_current, h_errors + 1)
    /\ h_errors' = IF h_errors + 1 >= MAX_ERRORS THEN 0 ELSE h_errors + 1
    /\ h_skipped' = IF h_current' > h_current THEN h_skipped + 1 ELSE h_skipped
    \* counted up to MAX_ERRORS
    /\ h_since' = IF h_current' > h_current THEN 0
                  ELSE IF h_since < MAX_ERRORS THEN h_since + 1 ELSE h_since
    /\ UNCHANGED <<h_end, h_klines, h_pc, notHist>>

\* "while current_ms < end_ms" is false: "return all_klines"
FetchReturn ==
    /\ h_pc = "loop" /\ h_current >= h_end
    /\ h_pc' = "returned"
    /\ UNCHANGED <<h_current, h_end, h_errors, h_klines, h_since, h_skipped, notHist>>

HistInit ==
    /\ h_current = 0
    /\ h_end \in {1, 1200, MaxEnd}
    /\ h_errors = 0 /\ h_klines = 0 /\ h_since = 0 /\ h_skipped = 0
    /\ h_pc = "loop"
    /\ StreakIdle /\ ExitIdle /\ SplitIdle /\ WfIdle /\ PfIdle /\ BatchIdle /\ CtxIdle /\ LkIdle /\ EntryIdle /\ MetricIdle /\ McIdle /\ ZoneIdle /\ TouchIdle /\ FillIdle

HistNext ==
    \/ FetchChunk
    \/ FetchEmpty
    \/ FetchError
    \/ FetchReturn

\* every request either returns or raises, and the sleeps end: the loop
\* always gets to its next iteration
SpecHistory == HistInit /\ [][HistNext]_vars /\ WF_vars(HistNext)

\* C30: fetch_btc_price_history terminates for every start < end under any
\* pattern of request failures, every non-empty response ending at or after
\* the requested start time.
C30_Terminates == <>(h_pc = "returned")

\* current_ms advances at least once in every 5 consecutive iterations, and
\* never goes back
C30_AdvancesWithinFive ==
    [][ /\ h_current' >= h_current
        /\ h_since' < MAX_ERRORS ]_vars

\* a download that lost two chunks to errors, fetched klines around them and
\* returned
C30_Witness ==
    /\ h_pc = "returned" /\ h_current >= h_end
    /\ h_skipped = 2 /\ h_klines > 0

=============================================================================
